---- MODULE Spec2Model ----
(***************************************************************************)
(* Chunkenizer: the ingestion pipeline and the protocol that keeps the     *)
(* Metadata Store (SQLite table "documents") and the Vector Store (one     *)
(* Qdrant collection) in agreement: upload / force-reindex, delete-one,    *)
(* bulk delete, point-level delete with recount, delete-all.               *)
(*                                                                         *)
(* Every handler of app/api/routes.py is a sequence of steps, one step per *)
(* store call (or per group of calls that touch no store); a request holds *)
(* its position in req[p].pc and its local variables in req[p].  A store   *)
(* call either takes effect or raises without effect; which one is the     *)
(* step's parameter f ("ok", or the name of the call that raises).         *)
(***************************************************************************)
EXTENDS Integers, Sequences, FiniteSets, TLC

VARIABLES
    docs,           \* Metadata Store: the rows of table documents
    points,         \* Vector Store: the points of the collection
    collection,     \* whether the collection exists in the Vector Store
    next_doc,       \* number of Document ids drawn so far (uuid4, models.py:12)
    next_point,     \* number of point ids drawn so far (uuid4, routes.py:177)
    chunk_size,     \* TokenChunker.chunk_size  (settings.chunk_size_tokens)
    chunk_overlap,  \* TokenChunker.chunk_overlap (settings.chunk_overlap_tokens)
    req,            \* per request slot: the running handler's locals
    resp,           \* per request slot: the last response returned
    hist            \* per request slot: what the last request saw and did

vars == <<docs, points, collection, next_doc, next_point,
          chunk_size, chunk_overlap, req, resp, hist>>

stores == <<docs, points, collection>>
config == <<chunk_size, chunk_overlap>>

----------------------------------------------------------------------------
(* Bounds of the model *)

\* Document ids that can be drawn: the number of rows ever created.
MaxDocs == 2
\* Longest uploaded text, in tokens.
MaxTokens == 5
\* Updates of one row (point-level recounts, delete-all) before it is deleted.
MaxUpdates == 2

(* Program constants.  The source's 10000 is scaled down to 2 so that a    *)
(* document with more points than one scroll page fits in the bounds       *)
(* (chunk_size 2, overlap 1: a text of 4 tokens has 3 chunks).  The source *)
(* puts no limit on the number of chunks of a document.                    *)

\* limit=10000 of the doc_id-filtered scroll in delete_by_doc_id
ScrollLimit == 2
\* limit=10000 of the doc_id-filtered scroll of the recount
RecountLimit == 2
\* batch_size = 10000 of delete_all_points
batch_size == 2
\* delete_batch_size = 10000 of delete_all_points
delete_batch_size == 2

\* The request slots: concurrent requests (workers sharing both stores).
Procs == {"r1", "r2"}
\* The one slot of a sequential client.
SeqProcs == {"r1"}

None == 0
WS == 0     \* the whitespace symbol of a text
EmptyObj == 2   \* the two bytes "{}": a text of one token, an empty JSON object
BadByte == -1   \* a byte that is not valid UTF-8

Min(a, b) == IF a < b THEN a ELSE b

RECURSIVE TokenSum(_)
\* sum(point.payload.get("token_count", 0) for point in S)
TokenSum(S) ==
    IF S = {} THEN 0
    ELSE LET x == CHOOSE y \in S : TRUE
         IN x.token_count + TokenSum(S \ {x})

RECURSIVE SeqSum(_)
SeqSum(s) == IF s = <<>> THEN 0 ELSE Head(s) + SeqSum(Tail(s))

Range(s) == {s[i] : i \in DOMAIN s}

\* The bytes a client uploads: the empty text, a one-token text, the
\* longest text (of several chunks, every symbol its own so that a chunk's
\* text tells which tokens it covers), the whitespace-only text, and "{}".
Contents ==
    {[i \in 1..n |-> i] : n \in {0, 1, MaxTokens}} \cup {<<WS>>, <<EmptyObj>>}

\* The content types a client declares.
ContentTypes == {"text/plain", "application/json"}

----------------------------------------------------------------------------
(* app/ingest: hasher, chunker, pipeline *)

\* hashlib.sha256(): a new hash object, which has absorbed no byte
NewHash == <<>>

\* the hash object h after it absorbed data
Update(h, data) == h \o data

\* The digest is 32 bytes, written as 64 hexadecimal digits.
DigestLen == 64
HexChars == <<"0", "1", "2", "3", "4", "5", "6", "7",
              "8", "9", "a", "b", "c", "d", "e", "f">>

\* h.hexdigest(): a function of the bytes absorbed alone, without
\* collisions on the byte strings of the model (each byte of the model
\* gives one digit other than "0", and "0" fills the rest).  The string is
\* written as its runs <<digit, length>>.
HexDigest(h) ==
    [i \in 1..Len(h) |-> <<HexChars[h[i] + 3], 1>>]
        \o <<<<"0", DigestLen - Len(h)>>>>

\* The hasher that keeps one hash object for all its calls.
compute_sha256_SharedHasher(content) ==
    LET RECURSIVE Absorbed(_)
        Absorbed(calls) == IF calls = <<>> THEN NewHash
                           ELSE Update(Absorbed(SubSeq(calls, 1, Len(calls) - 1)),
                                       calls[Len(calls)].content)
    IN HexDigest(Update(Absorbed(req["r1"].calls), content))

\* hashlib.sha256(content).hexdigest()
compute_sha256(content) == HexDigest(Update(NewHash, content))

\* tiktoken encode / decode: one token per symbol of the text.
Encode(text) == [i \in 1..Len(text) |-> <<"tok", text[i]>>]
Decode(tokens) == [i \in 1..Len(tokens) |-> tokens[i][2]]

\* not text.strip()
IsBlank(text) == \A i \in 1..Len(text) : text[i] = WS

RECURSIVE ChunkLoop_NoOverlap(_, _, _, _, _)
\* The loop whose next window starts where the last one ended.
ChunkLoop_NoOverlap(tokens, size, overlap, start_idx, chunk_index) ==
    IF start_idx >= Len(tokens) THEN <<>>
    ELSE LET end_idx == Min(start_idx + size, Len(tokens))
             chunk_tokens == SubSeq(tokens, start_idx + 1, end_idx)
             c == [text |-> Decode(chunk_tokens),
                   token_count |-> Len(chunk_tokens),
                   chunk_index |-> chunk_index]
         IN IF end_idx >= Len(tokens) THEN <<c>>
            ELSE <<c>> \o ChunkLoop_NoOverlap(tokens, size, overlap,
                                              end_idx, chunk_index + 1)

RECURSIVE ChunkLoop_WideWindow(_, _, _, _, _)
\* The loop whose window is chunk_size tokens plus the overlap.
ChunkLoop_WideWindow(tokens, size, overlap, start_idx, chunk_index) ==
    IF start_idx >= Len(tokens) THEN <<>>
    ELSE LET end_idx == Min(start_idx + size + overlap, Len(tokens))
             chunk_tokens == SubSeq(tokens, start_idx + 1, end_idx)
             c == [text |-> Decode(chunk_tokens),
                   token_count |-> Len(chunk_tokens),
                   chunk_index |-> chunk_index]
         IN IF end_idx >= Len(tokens) THEN <<c>>
            ELSE <<c>> \o ChunkLoop_WideWindow(tokens, size, overlap,
                                               end_idx - overlap, chunk_index + 1)

RECURSIVE ChunkLoop_Forward(_, _, _, _, _)
\* The loop that moves the next window forward by the overlap where it
\* should move it back.
ChunkLoop_Forward(tokens, size, overlap, start_idx, chunk_index) ==
    IF start_idx >= Len(tokens) THEN <<>>
    ELSE LET end_idx == Min(start_idx + size, Len(tokens))
             chunk_tokens == SubSeq(tokens, start_idx + 1, end_idx)
             c == [text |-> Decode(chunk_tokens),
                   token_count |-> Len(chunk_tokens),
                   chunk_index |-> chunk_index]
         IN IF end_idx >= Len(tokens) THEN <<c>>
            ELSE <<c>> \o ChunkLoop_Forward(tokens, size, overlap,
                                            end_idx + overlap, chunk_index + 1)

RECURSIVE ChunkLoop(_, _, _, _, _)
\* the while loop of chunk_text from start_idx on
ChunkLoop(tokens, size, overlap, start_idx, chunk_index) ==
    IF start_idx >= Len(tokens) THEN <<>>
    ELSE LET end_idx == Min(start_idx + size, Len(tokens))
             chunk_tokens == SubSeq(tokens, start_idx + 1, end_idx)
             c == [text |-> Decode(chunk_tokens),
                   token_count |-> Len(chunk_tokens),
                   chunk_index |-> chunk_index]
         IN IF end_idx >= Len(tokens) THEN <<c>>
            ELSE <<c>> \o ChunkLoop(tokens, size, overlap,
                                    end_idx - overlap, chunk_index + 1)

RECURSIVE Strip(_)
\* text.strip()
Strip(text) ==
    IF text = <<>> THEN text
    ELSE IF Head(text) = WS THEN Strip(Tail(text))
    ELSE IF text[Len(text)] = WS THEN Strip(SubSeq(text, 1, Len(text) - 1))
    ELSE text

\* chunk_text that returns a short text stripped of its outer whitespace.
chunk_text_Stripped(text, size, overlap) ==
    IF IsBlank(text) THEN <<>>
    ELSE LET tokens == Encode(text)
         IN IF Len(tokens) <= size
            THEN <<[text |-> Strip(text), token_count |-> Len(tokens),
                    chunk_index |-> 0]>>
            ELSE ChunkLoop(tokens, size, overlap, 0, 0)

\* chunk_text that tests the text for emptiness without stripping it.
chunk_text_EmptyOnly(text, size, overlap) ==
    IF text = <<>> THEN <<>>
    ELSE LET tokens == Encode(text)
         IN IF Len(tokens) <= size
            THEN <<[text |-> text, token_count |-> Len(tokens), chunk_index |-> 0]>>
            ELSE ChunkLoop(tokens, size, overlap, 0, 0)

\* chunk_text without its check for a blank text.
chunk_text_NoBlankCheck(text, size, overlap) ==
    LET tokens == Encode(text)
    IN IF Len(tokens) <= size
       THEN <<[text |-> text, token_count |-> Len(tokens), chunk_index |-> 0]>>
       ELSE ChunkLoop(tokens, size, overlap, 0, 0)

chunk_text(text, size, overlap) ==
    IF IsBlank(text) THEN <<>>
    ELSE LET tokens == Encode(text)
         IN IF Len(tokens) <= size
            THEN <<[text |-> text, token_count |-> Len(tokens), chunk_index |-> 0]>>
            ELSE ChunkLoop(tokens, size, overlap, 0, 0)

\* embedding_model.encode: a black-box function of the chunk text
Embed(text) == <<"emb", text>>

\* bytes that content.decode("utf-8") accepts
Utf8Valid(content) == \A i \in DOMAIN content : content[i] # BadByte

\* content.decode("utf-8", errors="ignore"): the invalid bytes are dropped
DecodeIgnore(content) == SelectSeq(content, LAMBDA b : b # BadByte)

\* json.loads(text) returns: of the symbols of the model only "{}" is a JSON
\* value, and whitespace may surround it; on every other text json.loads
\* raises JSONDecodeError.
ParsesAsJson(text) ==
    \E i \in DOMAIN text :
        text[i] = EmptyObj /\ \A j \in DOMAIN text \ {i} : text[j] = WS

\* DocumentProcessor.extract_text raises UnicodeDecodeError: the strict
\* decode of the text types, and the strict decode inside the try of the
\* JSON type, whose except clause names json.JSONDecodeError only.
ExtractRaises(content, content_type) ==
    /\ content_type \in {"text/plain", "text/markdown", "application/json"}
    /\ ~Utf8Valid(content)

\* DocumentProcessor.extract_text when it returns.  _flatten_json of the
\* empty object is the empty string.
extract_text(content, content_type) ==
    IF content_type \in {"text/plain", "text/markdown"} THEN content
    ELSE IF content_type = "application/json" /\ ParsesAsJson(content) THEN <<>>
    ELSE DecodeIgnore(content)

\* The pipeline without its check for an empty chunk list.
process_document_NoCheck(content, content_type, size, overlap) ==
    LET chunks == chunk_text(extract_text(content, content_type), size, overlap)
    IN [ok |-> ~ExtractRaises(content, content_type),
        chunks |-> chunks,
        embeddings |-> [k \in 1..Len(chunks) |-> Embed(chunks[k].text)],
        sha256 |-> compute_sha256(content),
        total_tokens |-> SeqSum([k \in 1..Len(chunks) |-> chunks[k].token_count])]

\* The pipeline with total_tokens counted on the whole text.
process_document_TextTokens(content, content_type, size, overlap) ==
    LET chunks == chunk_text(extract_text(content, content_type), size, overlap)
    IN [ok |-> ~ExtractRaises(content, content_type) /\ chunks # <<>>,
        chunks |-> chunks,
        embeddings |-> [k \in 1..Len(chunks) |-> Embed(chunks[k].text)],
        sha256 |-> compute_sha256(content),
        total_tokens |-> Len(Encode(extract_text(content, content_type)))]

\* process_document: ok = FALSE is "Document produced no chunks" (ValueError)
process_document(content, content_type, size, overlap) ==
    LET chunks == chunk_text(extract_text(content, content_type), size, overlap)
    IN [ok |-> ~ExtractRaises(content, content_type) /\ chunks # <<>>,
        chunks |-> chunks,
        embeddings |-> [k \in 1..Len(chunks) |-> Embed(chunks[k].text)],
        sha256 |-> compute_sha256(content),
        total_tokens |-> SeqSum([k \in 1..Len(chunks) |-> chunks[k].token_count])]

----------------------------------------------------------------------------
(* Metadata Store (SQLAlchemy session on table documents) *)

\* db.query(Document).filter(Document.sha256 == sha256).first(): its id or None
DocBySha(sha) ==
    IF \E d \in docs : d.sha256 = sha
    THEN (CHOOSE d \in docs : d.sha256 = sha).id
    ELSE None

\* db.query(Document).filter(Document.id == doc_id).first() finds a row
HasDoc(id) == \E d \in docs : d.id = id
Row(id) == CHOOSE d \in docs : d.id = id

\* The column without its unique index: no INSERT is rejected.
UniqueViolation_NoIndex(sha) == FALSE

\* sha256 = Column(String, unique=True, ...): the INSERT is rejected
UniqueViolation(sha) == \E d \in docs : d.sha256 = sha

\* db.delete(doc); db.commit(): DELETE ... WHERE id = doc.id
DbDelete(id) == {d \in docs : d.id # id}

----------------------------------------------------------------------------
(* Vector Store (QdrantStore) *)

PointsOf(doc_id) == {pt \in points : pt.doc_id = doc_id}

\* The k smallest elements of a set of points, in id order (a scroll page)
RECURSIVE FirstK(_, _)
FirstK(S, k) ==
    IF k = 0 \/ S = {} THEN {}
    ELSE LET m == CHOOSE x \in S : \A y \in S : x.id <= y.id
         IN {m} \cup FirstK(S \ {m}, k - 1)

\* client.scroll(scroll_filter=doc_id == id, limit=limit)[0]
Scroll(doc_id, limit) == FirstK(PointsOf(doc_id), limit)

\* The deletion whose scroll carries no filter on doc_id.
delete_by_doc_id_NoFilter(doc_id) ==
    LET page == FirstK(points, ScrollLimit)
    IN points \ page

\* delete_by_doc_id: scroll one page of the document's points, delete them
delete_by_doc_id(doc_id) ==
    LET page == Scroll(doc_id, ScrollLimit)
    IN points \ page

\* A store call of the Vector Store succeeds: the collection exists and the
\* call does not raise.
VsOk(f) == collection /\ f = "ok"

----------------------------------------------------------------------------
(* Requests *)

Idle == [op |-> "idle", pc |-> "idle",
         \* upload_document
         content |-> <<>>, content_type |-> "", force |-> FALSE,
         existing |-> None, result |-> <<>>, total |-> 0, doc |-> None,
         \* delete_document, delete_documents
         target |-> None, ids |-> <<>>, i |-> 0, qdrant_deleted |-> FALSE,
         loaded_cc |-> 0, loaded_tt |-> 0, deleted |-> <<>>, failed |-> <<>>,
         \* delete_qdrant_points
         pids |-> {}, map |-> {}, cur |-> None, new_cc |-> 0, new_tt |-> 0,
         updated |-> <<>>,
         \* delete_all_qdrant_points
         total_points |-> 0, deleted_count |-> 0,
         \* TokenChunker.chunk_text
         start_idx |-> 0, chunk_index |-> 0,
         \* DocumentProcessor.compute_sha256: the calls made and their results
         calls |-> <<>>,
         \* DocumentProcessor.extract_text, _flatten_json
         text |-> <<>>, obj |-> [kind |-> "leaf", value |-> "null", items |-> <<>>]]

NoResp == [status |-> 0, message |-> "", document_id |-> None,
           chunk_count |-> 0, total_tokens |-> 0, warning |-> FALSE,
           deleted |-> <<>>, failed |-> <<>>, updated |-> <<>>,
           deleted_count |-> 0, failed_count |-> 0, documents_updated |-> 0,
           total_points_before |-> 0]

\* What the model remembers of a request after it returned: its arguments,
\* the stores as they were when it arrived, and which calls raised
\* (raised: pairs of the step and the loop index or document it was at).
NoHist == [op |-> "idle", pre_docs |-> {}, pre_points |-> {},
           pre_collection |-> FALSE,
           content |-> <<>>, content_type |-> "", force |-> FALSE,
           existing |-> None, doc |-> None,
           target |-> None, ids |-> <<>>, pids |-> {},
           failed_at |-> "", raised |-> {}]

Done == [Idle EXCEPT !.pc = "done"]

\* The handler returns (or raises HTTPException) with response r.
Return(p, r, h) ==
    /\ req' = [req EXCEPT ![p] = Done]
    /\ resp' = [resp EXCEPT ![p] = r]
    /\ hist' = [hist EXCEPT ![p] = h]

\* raise HTTPException(status_code=500, ...) out of the step named at
Fail500(p, at) ==
    Return(p, [NoResp EXCEPT !.status = 500, !.message = "error"],
              [hist[p] EXCEPT !.failed_at = at, !.raised = @ \cup {<<at, 0>>}])

\* The client has read the response: the slot is free for its next request.
Collect(p) ==
    /\ req[p].pc = "done"
    /\ req' = [req EXCEPT ![p] = Idle]
    /\ resp' = [resp EXCEPT ![p] = NoResp]
    /\ hist' = [hist EXCEPT ![p] = NoHist]
    /\ UNCHANGED <<stores, next_doc, next_point, config>>

----------------------------------------------------------------------------
(* POST /documents: upload_document *)

\* The request arrives: file.read().
UploadStart(p, content, content_type, force) ==
    /\ req[p].pc = "idle"
    /\ next_doc + Cardinality({q \in Procs : req[q].op = "upload"}) < MaxDocs
    /\ req' = [req EXCEPT ![p] = [Idle EXCEPT !.op = "upload", !.pc = "lookup",
                                              !.content = content,
                                              !.content_type = content_type,
                                              !.force = force]]
    /\ resp' = [resp EXCEPT ![p] = NoResp]
    /\ hist' = [hist EXCEPT ![p] = [NoHist EXCEPT !.op = "upload",
                                                  !.content = content,
                                                  !.content_type = content_type,
                                                  !.force = force,
                                                  !.pre_docs = docs,
                                                  !.pre_points = points]]
    /\ UNCHANGED <<stores, next_doc, next_point, config>>

\* The existence check with the flag inverted.
ShortCircuit_Inverted(existing, force) == existing # None /\ force

\* the existence check (routes.py:110)
ShortCircuit(existing, force) == existing # None /\ ~force

\* compute_sha256, fingerprint lookup, short circuit, process_document.
\* f: "ok", "db" (the query raises), "embed" (the embedder raises)
UploadLookup(p, f) ==
    /\ req[p].op = "upload" /\ req[p].pc = "lookup"
    /\ LET sha == compute_sha256(req[p].content)
           existing == DocBySha(sha)
           result == process_document(req[p].content, req[p].content_type,
                                      chunk_size, chunk_overlap)
       IN IF f = "db" THEN Fail500(p, "lookup")
          ELSE IF ShortCircuit(existing, req[p].force)
          THEN Return(p, [NoResp EXCEPT !.status = 200,
                                        !.message = "Document already exists",
                                        !.document_id = existing,
                                        !.chunk_count = Row(existing).chunk_count,
                                        !.total_tokens = Row(existing).total_tokens],
                         [hist[p] EXCEPT !.existing = existing])
          ELSE IF ~result.ok \/ f = "embed" THEN Fail500(p, "process")
          ELSE /\ req' = [req EXCEPT ![p].existing = existing,
                                     ![p].result = result.chunks,
                                     ![p].total = result.total_tokens,
                                     ![p].pc = IF existing # None THEN "del_vectors"
                                                                  ELSE "insert_row"]
               /\ hist' = [hist EXCEPT ![p].existing = existing]
               /\ UNCHANGED resp
    /\ UNCHANGED <<stores, next_doc, next_point, config>>

\* The points after the call vectorstore.delete_by_doc_id(doc_id): a call
\* that raises has deleted nothing (the scroll or the one delete raised).
PointsAfterDelete(doc_id, f) ==
    IF VsOk(f) THEN delete_by_doc_id(doc_id) ELSE points

\* The reindex that deletes the old row where it should delete the old
\* points.
UploadDeleteVectors_RowFirst(p, f) ==
    /\ req[p].op = "upload" /\ req[p].pc = "del_vectors"
    /\ IF VsOk(f)
       THEN /\ docs' = DbDelete(req[p].existing)
            /\ req' = [req EXCEPT ![p].pc = "del_row"]
            /\ UNCHANGED <<resp, hist>>
       ELSE /\ Fail500(p, "del_vectors")
            /\ UNCHANGED docs
    /\ UNCHANGED <<points, collection, next_doc, next_point, config>>

\* The reindex that goes on to the row when the deletion of the old points
\* raised, as delete-one does.
UploadDeleteVectors_Tolerant(p, f) ==
    /\ req[p].op = "upload" /\ req[p].pc = "del_vectors"
    /\ points' = PointsAfterDelete(req[p].existing, f)
    /\ req' = [req EXCEPT ![p].pc = "del_row"]
    /\ hist' = IF VsOk(f) THEN hist
               ELSE [hist EXCEPT ![p].raised = @ \cup {<<"del_vectors", 0>>}]
    /\ UNCHANGED <<resp, docs, collection, next_doc, next_point, config>>

\* vectorstore.delete_by_doc_id(existing_doc.id) (routes.py:136)
UploadDeleteVectors(p, f) ==
    /\ req[p].op = "upload" /\ req[p].pc = "del_vectors"
    /\ points' = PointsAfterDelete(req[p].existing, f)
    /\ IF VsOk(f)
       THEN /\ req' = [req EXCEPT ![p].pc = "del_row"]
            /\ UNCHANGED <<resp, hist>>
       ELSE Fail500(p, "del_vectors")
    /\ UNCHANGED <<docs, collection, next_doc, next_point, config>>

\* db.delete(existing_doc); db.commit() (routes.py:137-138)
UploadDeleteRow(p, f) ==
    /\ req[p].op = "upload" /\ req[p].pc = "del_row"
    /\ IF f = "ok"
       THEN /\ docs' = DbDelete(req[p].existing)
            /\ req' = [req EXCEPT ![p].pc = "insert_row"]
            /\ UNCHANGED <<resp, hist>>
       ELSE /\ Fail500(p, "del_row")
            /\ UNCHANGED docs
    /\ UNCHANGED <<points, collection, next_doc, next_point, config>>

\* The INSERT whose failure is raised after the row was written.
UploadInsertRow_NoRollback(p, f) ==
    /\ req[p].op = "upload" /\ req[p].pc = "insert_row"
    /\ LET sha == compute_sha256(req[p].content)
           id == next_doc + 1
       IN /\ docs' = docs \cup {[id |-> id, sha256 |-> sha,
                                 chunk_count |-> Len(req[p].result),
                                 total_tokens |-> req[p].total,
                                 updated_at |-> 0]}
          /\ next_doc' = id
          /\ IF f = "ok"
             THEN /\ req' = [req EXCEPT ![p].doc = id, ![p].pc = "add_vectors"]
                  /\ hist' = [hist EXCEPT ![p].doc = id]
                  /\ UNCHANGED resp
             ELSE Fail500(p, "insert_row")
    /\ UNCHANGED <<points, collection, next_point, config>>

\* doc = Document(...); db.add(doc); db.commit(); db.refresh(doc)
\* (routes.py:142-153).  The id is a fresh uuid4.  updated_at is the time of
\* the row's last write, counted in writes since its creation
\* (models.py:17).
UploadInsertRow(p, f) ==
    /\ req[p].op = "upload" /\ req[p].pc = "insert_row"
    /\ LET sha == compute_sha256(req[p].content)
           id == next_doc + 1
       IN IF f = "ok" /\ ~UniqueViolation(sha)
          THEN /\ docs' = docs \cup {[id |-> id, sha256 |-> sha,
                                      chunk_count |-> Len(req[p].result),
                                      total_tokens |-> req[p].total,
                                      updated_at |-> 0]}
               /\ next_doc' = id
               /\ req' = [req EXCEPT ![p].doc = id, ![p].pc = "add_vectors"]
               /\ hist' = [hist EXCEPT ![p].doc = id]
               /\ UNCHANGED resp
          ELSE /\ Fail500(p, IF f = "ok" THEN "unique" ELSE "insert_row")
               /\ UNCHANGED <<docs, next_doc>>
    /\ UNCHANGED <<points, collection, next_point, config>>

\* The points of one upload with ids made of the chunk index alone.
NewPoints_IndexIds(doc_id, sha, chunks, first_id) ==
    {[id |-> k,
      vector |-> Embed(chunks[k].text),
      doc_id |-> doc_id,
      sha256 |-> sha,
      chunk_index |-> chunks[k].chunk_index,
      token_count |-> chunks[k].token_count,
      chunk_text |-> chunks[k].text] : k \in 1..Len(chunks)}

\* The points of one upload with the vectors zipped in reverse order.
NewPoints_Reversed(doc_id, sha, chunks, first_id) ==
    {[id |-> first_id + k,
      vector |-> Embed(chunks[Len(chunks) + 1 - k].text),
      doc_id |-> doc_id,
      sha256 |-> sha,
      chunk_index |-> chunks[k].chunk_index,
      token_count |-> chunks[k].token_count,
      chunk_text |-> chunks[k].text] : k \in 1..Len(chunks)}

\* The points of one upload: payloads, uuid4 ids, vectors, zipped in order
\* (routes.py:157-178, qdrant_client.py:61-64).
NewPoints(doc_id, sha, chunks, first_id) ==
    {[id |-> first_id + k,
      vector |-> Embed(chunks[k].text),
      doc_id |-> doc_id,
      sha256 |-> sha,
      chunk_index |-> chunks[k].chunk_index,
      token_count |-> chunks[k].token_count,
      chunk_text |-> chunks[k].text] : k \in 1..Len(chunks)}

\* client.upsert: a point with the id of a stored point replaces it
Upsert(new) == {pt \in points : \A n \in new : n.id # pt.id} \cup new

\* vectorstore.add_vectors(vectors, payloads, ids) and the response
\* (routes.py:182-194)
UploadAddVectors(p, f) ==
    /\ req[p].op = "upload" /\ req[p].pc = "add_vectors"
    /\ IF VsOk(f)
       THEN /\ points' = Upsert(NewPoints(req[p].doc, compute_sha256(req[p].content),
                                          req[p].result, next_point))
            /\ next_point' = next_point + Len(req[p].result)
            /\ Return(p, [NoResp EXCEPT !.status = 200,
                                        !.message = "Document ingested successfully",
                                        !.document_id = req[p].doc,
                                        !.chunk_count = Len(req[p].result),
                                        !.total_tokens = req[p].total],
                         hist[p])
       ELSE /\ Fail500(p, "add_vectors")
            /\ UNCHANGED <<points, next_point>>
    /\ UNCHANGED <<docs, collection, next_doc, config>>

----------------------------------------------------------------------------
(* DELETE /documents/{doc_id}: delete_document *)

\* Ids a client can name: every id drawn so far and one that was never drawn.
KnownIds == 1..(next_doc + 1)

DeleteStart(p, doc_id) ==
    /\ req[p].pc = "idle"
    /\ req' = [req EXCEPT ![p] = [Idle EXCEPT !.op = "delete_one", !.pc = "d_lookup",
                                              !.target = doc_id]]
    /\ resp' = [resp EXCEPT ![p] = NoResp]
    /\ hist' = [hist EXCEPT ![p] = [NoHist EXCEPT !.op = "delete_one",
                                                  !.target = doc_id,
                                                  !.pre_docs = docs,
                                                  !.pre_points = points]]
    /\ UNCHANGED <<stores, next_doc, next_point, config>>

\* The lookup of delete_document without its not-found check.
DeleteLookup_NoCheck(p, f) ==
    /\ req[p].op = "delete_one" /\ req[p].pc = "d_lookup"
    /\ IF f = "db" THEN Fail500(p, "d_lookup")
       ELSE /\ req' = [req EXCEPT ![p].pc = "d_vectors"]
            /\ UNCHANGED <<resp, hist>>
    /\ UNCHANGED <<stores, next_doc, next_point, config>>

\* doc = db.query(Document).filter(Document.id == doc_id).first()
\* (routes.py:305-308); f = "db": the query raises
DeleteLookup(p, f) ==
    /\ req[p].op = "delete_one" /\ req[p].pc = "d_lookup"
    /\ IF f = "db" THEN Fail500(p, "d_lookup")
       ELSE IF ~HasDoc(req[p].target)
       THEN Return(p, [NoResp EXCEPT !.status = 404,
                                     !.message = "Document not found"],
                      hist[p])
       ELSE /\ req' = [req EXCEPT ![p].pc = "d_vectors",
                                  ![p].loaded_cc = Row(req[p].target).chunk_count]
            /\ UNCHANGED <<resp, hist>>
    /\ UNCHANGED <<stores, next_doc, next_point, config>>

\* try: vectorstore.delete_by_doc_id(doc_id); qdrant_deleted = True
\* except: logged, the handler goes on (routes.py:313-323)
DeleteVectors(p, f) ==
    /\ req[p].op = "delete_one" /\ req[p].pc = "d_vectors"
    /\ IF VsOk(f)
       THEN /\ req' = [req EXCEPT ![p].pc = "d_row", ![p].qdrant_deleted = TRUE]
            /\ UNCHANGED hist
       ELSE /\ req' = [req EXCEPT ![p].pc = "d_row", ![p].qdrant_deleted = FALSE]
            /\ hist' = [hist EXCEPT ![p].raised = @ \cup {<<"d_vectors", 0>>}]
    /\ points' = PointsAfterDelete(req[p].target, f)
    /\ UNCHANGED <<docs, collection, next_doc, next_point, config, resp>>

\* The response of delete_document that never warns.
DeleteResponse_NoWarning(doc_id, qdrant_deleted) ==
    [NoResp EXCEPT !.status = 200,
                   !.message = "Document and all chunks deleted successfully",
                   !.document_id = doc_id]

\* the response of delete_document once the row is gone (routes.py:335-344)
DeleteResponse(doc_id, qdrant_deleted) ==
    IF ~qdrant_deleted
    THEN [NoResp EXCEPT !.status = 200,
                        !.message = "Document deleted from database, but some chunks may remain in Qdrant",
                        !.document_id = doc_id,
                        !.warning = TRUE]
    ELSE [NoResp EXCEPT !.status = 200,
                        !.message = "Document and all chunks deleted successfully",
                        !.document_id = doc_id]

\* The row deletion whose failure is logged and answered as a success.
DeleteRow_Swallow(p, f) ==
    /\ req[p].op = "delete_one" /\ req[p].pc = "d_row"
    /\ docs' = IF f = "ok" THEN DbDelete(req[p].target) ELSE docs
    /\ Return(p, DeleteResponse(req[p].target, req[p].qdrant_deleted),
              IF f = "ok" THEN hist[p]
              ELSE [hist[p] EXCEPT !.raised = @ \cup {<<"d_row", 0>>}])
    /\ UNCHANGED <<points, collection, next_doc, next_point, config>>

\* db.delete(doc); db.commit(); on failure db.rollback() and 500
\* (routes.py:326-344)
DeleteRow(p, f) ==
    /\ req[p].op = "delete_one" /\ req[p].pc = "d_row"
    /\ IF f = "ok"
       THEN /\ docs' = DbDelete(req[p].target)
            /\ Return(p, DeleteResponse(req[p].target, req[p].qdrant_deleted), hist[p])
       ELSE /\ Fail500(p, "d_row")
            /\ UNCHANGED docs
    /\ UNCHANGED <<points, collection, next_doc, next_point, config>>

\* delete_document as a function: the stores after the handler ran on the
\* rows ds and the points pts, and whether it removed the row.  failed
\* names the calls that raise: "lookup" (routes.py:305), "vectors"
\* (routes.py:317), "row" (routes.py:327-328).
delete_document(ds, pts, doc_id, failed) ==
    LET page == FirstK({pt \in pts : pt.doc_id = doc_id}, ScrollLimit)
        pts_after == IF collection /\ "vectors" \notin failed
                     THEN pts \ page ELSE pts
    IN IF "lookup" \in failed \/ ~\E d \in ds : d.id = doc_id
       THEN [docs |-> ds, points |-> pts, removed |-> FALSE]
       ELSE IF "row" \in failed
       THEN [docs |-> ds, points |-> pts_after, removed |-> FALSE]
       ELSE [docs |-> {d \in ds : d.id # doc_id}, points |-> pts_after,
             removed |-> TRUE]

----------------------------------------------------------------------------
(* DELETE /documents: delete_documents *)

\* The id lists of a request: no id, one id, or two ids (the same id twice
\* included).
IdLists ==
    {<<>>} \cup {<<a>> : a \in KnownIds}
           \cup {<<a, b>> : a \in KnownIds, b \in KnownIds}

\* if not request.document_ids: raise HTTPException(400) (routes.py:366-367)
BulkStart(p, ids) ==
    /\ req[p].pc = "idle"
    /\ hist' = [hist EXCEPT ![p] = [NoHist EXCEPT !.op = "bulk_delete",
                                                  !.ids = ids,
                                                  !.pre_docs = docs,
                                                  !.pre_points = points]]
    /\ IF ids = <<>>
       THEN /\ req' = [req EXCEPT ![p] = Done]
            /\ resp' = [resp EXCEPT ![p] = [NoResp EXCEPT !.status = 400,
                                                         !.message = "No document IDs provided"]]
       ELSE /\ req' = [req EXCEPT ![p] = [Idle EXCEPT !.op = "bulk_delete",
                                                      !.pc = "b_lookup",
                                                      !.ids = ids, !.i = 1]]
            /\ resp' = [resp EXCEPT ![p] = NoResp]
    /\ UNCHANGED <<stores, next_doc, next_point, config>>

\* the response built after the loop (routes.py:415-426)
BulkResponse(deleted, failed) ==
    [NoResp EXCEPT !.status = 200,
                   !.message = "Deleted document(s)",
                   !.deleted_count = Len(deleted),
                   !.failed_count = Len(failed),
                   !.deleted = deleted,
                   !.failed = failed,
                   !.warning = failed # <<>>]

\* The loop that ends at the first id that fails.
BulkAdvance_StopOnFailure(p, deleted, failed, h) ==
    IF req[p].i < Len(req[p].ids) /\ failed = req[p].failed
    THEN /\ req' = [req EXCEPT ![p].i = @ + 1, ![p].pc = "b_lookup",
                               ![p].qdrant_deleted = FALSE,
                               ![p].deleted = deleted, ![p].failed = failed]
         /\ hist' = [hist EXCEPT ![p] = h]
         /\ UNCHANGED resp
    ELSE Return(p, BulkResponse(deleted, failed), h)

\* The end of one iteration of the for loop: the next id, or the response.
BulkAdvance(p, deleted, failed, h) ==
    IF req[p].i < Len(req[p].ids)
    THEN /\ req' = [req EXCEPT ![p].i = @ + 1, ![p].pc = "b_lookup",
                               ![p].qdrant_deleted = FALSE,
                               ![p].deleted = deleted, ![p].failed = failed]
         /\ hist' = [hist EXCEPT ![p] = h]
         /\ UNCHANGED resp
    ELSE Return(p, BulkResponse(deleted, failed), h)

\* doc = db.query(Document).filter(Document.id == doc_id).first()
\* (routes.py:374-378); a raising query is caught per id (routes.py:411-413)
BulkLookup(p, f) ==
    /\ req[p].op = "bulk_delete" /\ req[p].pc = "b_lookup"
    /\ LET doc_id == req[p].ids[req[p].i]
       IN IF f = "db"
          THEN BulkAdvance(p, req[p].deleted,
                           Append(req[p].failed, [doc_id |-> doc_id, error |-> "error"]),
                           [hist[p] EXCEPT !.raised = @ \cup {<<"b_lookup", req[p].i>>}])
          ELSE IF ~HasDoc(doc_id)
          THEN BulkAdvance(p, req[p].deleted,
                           Append(req[p].failed,
                                  [doc_id |-> doc_id, error |-> "Document not found"]),
                           hist[p])
          ELSE /\ req' = [req EXCEPT ![p].pc = "b_vectors",
                                     ![p].loaded_cc = Row(doc_id).chunk_count]
               /\ UNCHANGED <<resp, hist>>
    /\ UNCHANGED <<stores, next_doc, next_point, config>>

\* The bulk delete that gives up an id whose vector deletion raised.
BulkVectors_SkipOnFailure(p, f) ==
    /\ req[p].op = "bulk_delete" /\ req[p].pc = "b_vectors"
    /\ IF VsOk(f)
       THEN /\ req' = [req EXCEPT ![p].pc = "b_row", ![p].qdrant_deleted = TRUE]
            /\ UNCHANGED <<hist, resp>>
       ELSE BulkAdvance(p, req[p].deleted,
                        Append(req[p].failed,
                               [doc_id |-> req[p].ids[req[p].i], error |-> "error"]),
                        [hist[p] EXCEPT !.raised = @ \cup {<<"b_vectors", req[p].i>>}])
    /\ points' = PointsAfterDelete(req[p].ids[req[p].i], f)
    /\ UNCHANGED <<docs, collection, next_doc, next_point, config>>

\* try: vectorstore.delete_by_doc_id(doc_id); qdrant_deleted = True
\* (routes.py:383-392)
BulkVectors(p, f) ==
    /\ req[p].op = "bulk_delete" /\ req[p].pc = "b_vectors"
    /\ IF VsOk(f)
       THEN /\ req' = [req EXCEPT ![p].pc = "b_row", ![p].qdrant_deleted = TRUE]
            /\ UNCHANGED hist
       ELSE /\ req' = [req EXCEPT ![p].pc = "b_row", ![p].qdrant_deleted = FALSE]
            /\ hist' = [hist EXCEPT ![p].raised = @ \cup {<<"b_vectors", req[p].i>>}]
    /\ points' = PointsAfterDelete(req[p].ids[req[p].i], f)
    /\ UNCHANGED <<docs, collection, next_doc, next_point, config, resp>>

\* db.delete(doc); db.commit(); deleted_docs.append(...), or on failure
\* db.rollback(); failed_docs.append(...) (routes.py:395-409)
BulkRow(p, f) ==
    /\ req[p].op = "bulk_delete" /\ req[p].pc = "b_row"
    /\ LET doc_id == req[p].ids[req[p].i]
       IN IF f = "ok"
          THEN /\ docs' = DbDelete(doc_id)
               /\ BulkAdvance(p, Append(req[p].deleted,
                                        [doc_id |-> doc_id,
                                         chunks_deleted |-> req[p].loaded_cc,
                                         qdrant_cleaned |-> req[p].qdrant_deleted]),
                              req[p].failed, hist[p])
          ELSE /\ BulkAdvance(p, req[p].deleted,
                              Append(req[p].failed, [doc_id |-> doc_id, error |-> "error"]),
                              [hist[p] EXCEPT !.raised = @ \cup {<<"b_row", req[p].i>>}])
               /\ UNCHANGED docs
    /\ UNCHANGED <<points, collection, next_doc, next_point, config>>

----------------------------------------------------------------------------
(* DELETE /qdrant/points: delete_qdrant_points *)

\* Point ids a client can name: the id of every stored point and one id
\* that names no point.
KnownPointIds == {pt.id : pt \in points} \cup {next_point + 1}

\* The point ids of a request, as a set: no id, one id, or two ids.
PointIdSets ==
    {{}} \cup {{a, b} : a \in KnownPointIds, b \in KnownPointIds}

\* if not request.point_ids: raise HTTPException(400) (routes.py:637-638)
PointsStart(p, pids) ==
    /\ req[p].pc = "idle"
    /\ \A d \in docs : d.updated_at < MaxUpdates
    /\ hist' = [hist EXCEPT ![p] = [NoHist EXCEPT !.op = "delete_points",
                                                  !.pids = pids,
                                                  !.pre_docs = docs,
                                                  !.pre_points = points]]
    /\ IF pids = {}
       THEN /\ req' = [req EXCEPT ![p] = Done]
            /\ resp' = [resp EXCEPT ![p] = [NoResp EXCEPT !.status = 400,
                                                         !.message = "No point IDs provided"]]
       ELSE /\ req' = [req EXCEPT ![p] = [Idle EXCEPT !.op = "delete_points",
                                                      !.pc = "p_retrieve",
                                                      !.pids = pids]]
            /\ resp' = [resp EXCEPT ![p] = NoResp]
    /\ UNCHANGED <<stores, next_doc, next_point, config>>

\* client.retrieve(ids=point_ids, with_payload=True): the stored points
Retrieve(pids) == {pt \in points : pt.id \in pids}

\* doc_points_map: the doc_id of every retrieved point (routes.py:658-667)
DocPointsMap(retrieved) == {pt.doc_id : pt \in retrieved}

\* try: points_to_delete = client.retrieve(...) except: logged
\* (routes.py:645-667)
PointsRetrieve(p, f) ==
    /\ req[p].op = "delete_points" /\ req[p].pc = "p_retrieve"
    /\ IF VsOk(f)
       THEN /\ req' = [req EXCEPT ![p].pc = "p_delete",
                                  ![p].map = DocPointsMap(Retrieve(req[p].pids))]
            /\ UNCHANGED hist
       ELSE /\ req' = [req EXCEPT ![p].pc = "p_delete", ![p].map = {}]
            /\ hist' = [hist EXCEPT ![p].raised = @ \cup {<<"p_retrieve", 0>>}]
    /\ UNCHANGED <<stores, next_doc, next_point, config, resp>>

\* QdrantStore.delete_points: client.delete(points_selector=point_ids)
delete_points(pids) == {pt \in points : pt.id \notin pids}

\* the response of delete_qdrant_points (routes.py:732-737)
PointsResponse(pids, updated) ==
    [NoResp EXCEPT !.status = 200,
                   !.message = "Points deleted successfully",
                   !.deleted_count = Cardinality(pids),
                   !.updated = updated,
                   !.documents_updated = Len(updated)]

\* The recount loop goes to its next document, or the handler returns.
PointsAdvance(p, map, updated, h) ==
    IF map # {}
    THEN /\ req' = [req EXCEPT ![p].pc = "p_recount", ![p].map = map,
                               ![p].cur = None, ![p].updated = updated]
         /\ hist' = [hist EXCEPT ![p] = h]
         /\ UNCHANGED resp
    ELSE Return(p, PointsResponse(req[p].pids, updated), h)

\* The deletion whose failure is logged and the recount goes on.
PointsDelete_Swallow(p, f) ==
    /\ req[p].op = "delete_points" /\ req[p].pc = "p_delete"
    /\ points' = IF VsOk(f) THEN delete_points(req[p].pids) ELSE points
    /\ PointsAdvance(p, req[p].map, <<>>,
                     IF VsOk(f) THEN hist[p]
                     ELSE [hist[p] EXCEPT !.failed_at = "p_delete",
                                          !.raised = @ \cup {<<"p_delete", 0>>}])
    /\ UNCHANGED <<docs, collection, next_doc, next_point, config>>

\* vectorstore.delete_points(request.point_ids); failure is a 500
\* (routes.py:670-675)
PointsDelete(p, f) ==
    /\ req[p].op = "delete_points" /\ req[p].pc = "p_delete"
    /\ IF VsOk(f)
       THEN /\ points' = delete_points(req[p].pids)
            /\ PointsAdvance(p, req[p].map, <<>>, hist[p])
       ELSE /\ Fail500(p, "p_delete")
            /\ UNCHANGED points
    /\ UNCHANGED <<docs, collection, next_doc, next_point, config>>

\* One iteration of the recount loop up to the assignments: the row is
\* queried, the document's remaining points are scrolled and counted
\* (routes.py:681-710).  f = "db": the query raises; "scroll": the scroll
\* raises; either is caught, rolled back and the loop goes on.
PointsRecount(p, doc_id, f) ==
    /\ req[p].op = "delete_points" /\ req[p].pc = "p_recount"
    /\ doc_id \in req[p].map
    /\ LET rest == req[p].map \ {doc_id}
           remaining_points == Scroll(doc_id, RecountLimit)
       IN IF f = "db" \/ (HasDoc(doc_id) /\ ~VsOk(f))
          THEN PointsAdvance(p, rest, req[p].updated,
                             [hist[p] EXCEPT !.raised = @ \cup {<<"p_recount", doc_id>>}])
          ELSE IF ~HasDoc(doc_id)
          THEN PointsAdvance(p, rest, req[p].updated, hist[p])
          ELSE /\ req' = [req EXCEPT ![p].pc = "p_commit",
                                     ![p].map = rest,
                                     ![p].cur = doc_id,
                                     ![p].loaded_cc = Row(doc_id).chunk_count,
                                     ![p].loaded_tt = Row(doc_id).total_tokens,
                                     ![p].new_cc = Cardinality(remaining_points),
                                     ![p].new_tt = TokenSum(remaining_points)]
               /\ UNCHANGED <<resp, hist>>
    /\ UNCHANGED <<stores, next_doc, next_point, config>>

\* The UPDATE of db.commit(): the session writes the attributes whose value
\* differs from the one it loaded, WHERE id = doc.id; updated_at was set to
\* datetime.utcnow() (routes.py:710) and is always written.
DbUpdateCounts(id, loaded_cc, loaded_tt, new_cc, new_tt) ==
    {IF d.id = id
     THEN [d EXCEPT !.chunk_count = IF new_cc # loaded_cc THEN new_cc ELSE @,
                    !.total_tokens = IF new_tt # loaded_tt THEN new_tt ELSE @,
                    !.updated_at = @ + 1]
     ELSE d : d \in docs}

\* The commit whose failure ends the request with a 500.
PointsCommit_AbortOnFailure(p, f) ==
    /\ req[p].op = "delete_points" /\ req[p].pc = "p_commit"
    /\ LET doc_id == req[p].cur
       IN IF f = "ok" /\ HasDoc(doc_id)
          THEN /\ docs' = DbUpdateCounts(doc_id, req[p].loaded_cc, req[p].loaded_tt,
                                         req[p].new_cc, req[p].new_tt)
               /\ PointsAdvance(p, req[p].map,
                                Append(req[p].updated,
                                       [doc_id |-> doc_id,
                                        new_chunk_count |-> req[p].new_cc,
                                        new_total_tokens |-> req[p].new_tt]),
                                hist[p])
          ELSE /\ Return(p, [NoResp EXCEPT !.status = 500, !.message = "error"],
                            [hist[p] EXCEPT !.raised = @ \cup {<<"p_commit", doc_id>>}])
               /\ UNCHANGED docs
    /\ UNCHANGED <<points, collection, next_doc, next_point, config>>

\* db.commit() of one recount and updated_docs.append(...)
\* (routes.py:713-730).  The UPDATE of a row that is gone matches no row:
\* StaleDataError, caught like any other failure.
PointsCommit(p, f) ==
    /\ req[p].op = "delete_points" /\ req[p].pc = "p_commit"
    /\ LET doc_id == req[p].cur
       IN IF f = "ok" /\ HasDoc(doc_id)
          THEN /\ docs' = DbUpdateCounts(doc_id, req[p].loaded_cc, req[p].loaded_tt,
                                         req[p].new_cc, req[p].new_tt)
               /\ PointsAdvance(p, req[p].map,
                                Append(req[p].updated,
                                       [doc_id |-> doc_id,
                                        new_chunk_count |-> req[p].new_cc,
                                        new_total_tokens |-> req[p].new_tt]),
                                hist[p])
          ELSE /\ PointsAdvance(p, req[p].map, req[p].updated,
                                [hist[p] EXCEPT !.raised = @ \cup {<<"p_commit", doc_id>>}])
               /\ UNCHANGED docs
    /\ UNCHANGED <<points, collection, next_doc, next_point, config>>

----------------------------------------------------------------------------
(* DELETE /qdrant/points/all: delete_all_qdrant_points *)

RECURSIVE ScrollAll(_)
\* The scroll loop of delete_all_points over the points S not yet paged:
\* pages of batch_size until a short page or no next offset
\* (qdrant_client.py:140-164).
ScrollAll(S) ==
    LET page == FirstK(S, batch_size)
    IN IF page = {} THEN {}
       ELSE IF Cardinality(page) < batch_size \/ S \ page = {} THEN page
       ELSE page \cup ScrollAll(S \ page)

\* The points left after the first n delete batches of all_point_ids
\* (qdrant_client.py:170-175)
AfterBatches(all, n) == points \ FirstK(all, n * delete_batch_size)

\* number of delete batches: range(0, len(all_point_ids), delete_batch_size)
NumBatches(all) == (Cardinality(all) + delete_batch_size - 1) \div delete_batch_size

\* Method 2 of delete_all_points, entered from the except branch with pts
\* left in the collection (qdrant_client.py:184-220).  g names the call of
\* the fallback that raises.  Without the collection nothing is recreated
\* and control falls to the final return 0 (total_count is None then).
Recreate(pts, total_count, g) ==
    IF g = "get_collections"
    THEN [raised |-> TRUE, points |-> pts, collection |-> collection, ret |-> 0]
    ELSE IF ~collection
    THEN [raised |-> FALSE, points |-> pts, collection |-> collection, ret |-> 0]
    ELSE IF g = "delete_collection"
    THEN [raised |-> TRUE, points |-> pts, collection |-> TRUE, ret |-> 0]
    ELSE IF g = "create_collection"
    THEN [raised |-> TRUE, points |-> {}, collection |-> FALSE, ret |-> 0]
    ELSE [raised |-> FALSE, points |-> {}, collection |-> TRUE,
          ret |-> IF total_count > 0 THEN total_count ELSE 0]

\* QdrantStore.delete_all_points.  f names the call of method 1 that raises
\* ("count", "scroll", "delete1": the first delete batch, "delete2": the
\* second), g the call of the fallback that raises.  total_count = -1 is
\* None.  The stored points do not change between the count and the scroll
\* of one call, so the branch of qdrant_client.py:223-238 (count > 0 and
\* an empty scroll) is not taken.
delete_all_points(f, g) ==
    LET total_count == IF collection /\ f # "count" THEN Cardinality(points) ELSE -1
        all_point_ids == ScrollAll(points)
        failing == IF f = "delete1" THEN 1 ELSE IF f = "delete2" THEN 2 ELSE 0
    IN IF total_count = 0
       THEN [raised |-> FALSE, points |-> points, collection |-> collection, ret |-> 0]
       ELSE IF ~collection \/ f = "scroll"
       THEN Recreate(points, total_count, g)
       ELSE IF all_point_ids = {}
       THEN [raised |-> FALSE, points |-> points, collection |-> collection, ret |-> 0]
       ELSE IF failing \in 1..NumBatches(all_point_ids)
       THEN Recreate(AfterBatches(all_point_ids, failing - 1), total_count, g)
       ELSE [raised |-> FALSE,
             points |-> AfterBatches(all_point_ids, NumBatches(all_point_ids)),
             collection |-> collection,
             ret |-> Cardinality(all_point_ids)]

AllStart(p) ==
    /\ req[p].pc = "idle"
    /\ \A d \in docs : d.updated_at < MaxUpdates
    /\ req' = [req EXCEPT ![p] = [Idle EXCEPT !.op = "delete_all", !.pc = "a_count"]]
    /\ resp' = [resp EXCEPT ![p] = NoResp]
    /\ hist' = [hist EXCEPT ![p] = [NoHist EXCEPT !.op = "delete_all",
                                                  !.pre_docs = docs,
                                                  !.pre_points = points]]
    /\ UNCHANGED <<stores, next_doc, next_point, config>>

\* total_points = client.count(...).count, or 0 when the count raises
\* (routes.py:756-762)
AllCount(p, f) ==
    /\ req[p].op = "delete_all" /\ req[p].pc = "a_count"
    /\ req' = [req EXCEPT ![p].pc = "a_delete",
                          ![p].total_points = IF VsOk(f) THEN Cardinality(points) ELSE 0]
    /\ UNCHANGED <<stores, next_doc, next_point, config, resp, hist>>

\* deleted_count = vectorstore.delete_all_points() and the count that
\* verifies it, which is only logged (routes.py:766-776)
AllDelete(p, f, g) ==
    /\ req[p].op = "delete_all" /\ req[p].pc = "a_delete"
    /\ LET r == delete_all_points(f, g)
       IN /\ points' = r.points
          /\ collection' = r.collection
          /\ IF r.raised
             THEN Fail500(p, "a_delete")
             ELSE /\ req' = [req EXCEPT ![p].pc = "a_docs",
                                        ![p].deleted_count = r.ret]
                  /\ hist' = [hist EXCEPT ![p].raised =
                                 @ \cup (IF f \in {"scroll", "delete1", "delete2"}
                                         THEN {<<f, 0>>} ELSE {})]
                  /\ UNCHANGED resp
    /\ UNCHANGED <<docs, next_doc, next_point, config>>

\* doc.chunk_count = 0; doc.total_tokens = 0; doc.updated_at = utcnow() for
\* every row
DbZeroCounts ==
    {[d EXCEPT !.chunk_count = 0, !.total_tokens = 0, !.updated_at = @ + 1] : d \in docs}

\* the response of delete_all_qdrant_points (routes.py:795-800)
AllResponse(deleted_count, total_points, updated_count) ==
    [NoResp EXCEPT !.status = 200,
                   !.message = "All points deleted from Qdrant successfully and document metadata updated",
                   !.deleted_count = deleted_count,
                   !.total_points_before = total_points,
                   !.documents_updated = updated_count]

\* The metadata update and the response (routes.py:778-800).
\* f = "db_query": db.query(Document).all() raises before updated_count is
\* bound, so building the response raises and the handler answers 500;
\* f = "db_commit": db.commit() raises, is rolled back and logged.
AllDocs(p, f) ==
    /\ req[p].op = "delete_all" /\ req[p].pc = "a_docs"
    /\ IF f = "db_query"
       THEN /\ Fail500(p, "a_docs")
            /\ UNCHANGED docs
       ELSE /\ docs' = IF f = "db_commit" THEN docs ELSE DbZeroCounts
            /\ Return(p, AllResponse(req[p].deleted_count, req[p].total_points,
                                     Cardinality(docs)),
                         [hist[p] EXCEPT !.raised =
                             @ \cup (IF f = "db_commit" THEN {<<"a_docs", 0>>} ELSE {})])
    /\ UNCHANGED <<points, collection, next_doc, next_point, config>>

----------------------------------------------------------------------------
Init ==
    /\ docs = {}
    /\ points = {}
    /\ collection = TRUE
    /\ next_doc = 0
    /\ next_point = 0
    /\ chunk_size = 2
    /\ chunk_overlap = 1
    /\ req = [p \in Procs |-> Idle]
    /\ resp = [p \in Procs |-> NoResp]
    /\ hist = [p \in Procs |-> NoHist]

\* The outcomes of a step: all of S, or "ok" alone in a run without failures.
Out(S, failures) == IF failures THEN S ELSE {"ok"}

DbOut == {"ok", "db"}
VsOut == {"ok", "vs"}

UploadRequest(p, contents, types) ==
    \E c \in contents, t \in types, force \in BOOLEAN :
        UploadStart(p, c, t, force)

UploadSteps(p, failures) ==
    \/ \E f \in Out({"ok", "db", "embed"}, failures) : UploadLookup(p, f)
    \/ \E f \in Out(VsOut, failures) : UploadDeleteVectors(p, f)
    \/ \E f \in Out(DbOut, failures) : UploadDeleteRow(p, f)
    \/ \E f \in Out(DbOut, failures) : UploadInsertRow(p, f)
    \/ \E f \in Out(VsOut, failures) : UploadAddVectors(p, f)

DeleteRequest(p) ==
    \E id \in KnownIds : DeleteStart(p, id)

DeleteSteps(p, failures) ==
    \/ \E f \in Out(DbOut, failures) : DeleteLookup(p, f)
    \/ \E f \in Out(VsOut, failures) : DeleteVectors(p, f)
    \/ \E f \in Out(DbOut, failures) : DeleteRow(p, f)

BulkRequest(p) ==
    \E ids \in IdLists : BulkStart(p, ids)

BulkSteps(p, failures) ==
    \/ \E f \in Out(DbOut, failures) : BulkLookup(p, f)
    \/ \E f \in Out(VsOut, failures) : BulkVectors(p, f)
    \/ \E f \in Out(DbOut, failures) : BulkRow(p, f)

PointsRequest(p) ==
    \E pids \in PointIdSets : PointsStart(p, pids)

PointsSteps(p, failures) ==
    \/ \E f \in Out(VsOut, failures) : PointsRetrieve(p, f)
    \/ \E f \in Out(VsOut, failures) : PointsDelete(p, f)
    \/ \E d \in req[p].map, f \in Out({"ok", "db", "scroll"}, failures) :
          PointsRecount(p, d, f)
    \/ \E f \in Out(DbOut, failures) : PointsCommit(p, f)

AllSteps(p, failures) ==
    \/ \E f \in Out(VsOut, failures) : AllCount(p, f)
    \/ \E f \in Out({"ok", "count", "scroll", "delete1", "delete2"}, failures),
          g \in Out({"ok", "get_collections", "delete_collection",
                     "create_collection"}, failures) : AllDelete(p, f, g)
    \/ \E f \in Out({"ok", "db_query", "db_commit"}, failures) : AllDocs(p, f)

\* One client, one request at a time, no store call raises.
SeqNext ==
    \E p \in SeqProcs :
        \/ UploadRequest(p, Contents, ContentTypes) \/ UploadSteps(p, FALSE)
        \/ DeleteRequest(p) \/ DeleteSteps(p, FALSE)
        \/ BulkRequest(p) \/ BulkSteps(p, FALSE)
        \/ PointsRequest(p) \/ PointsSteps(p, FALSE)
        \/ AllStart(p) \/ AllSteps(p, FALSE)
        \/ Collect(p)

SeqSpec == Init /\ [][SeqNext]_vars

\* One client, one request at a time, every store call may raise:
\* uploads, delete-one and delete-all.
Next ==
    \E p \in SeqProcs :
        \/ UploadRequest(p, Contents, ContentTypes) \/ UploadSteps(p, TRUE)
        \/ DeleteRequest(p) \/ DeleteSteps(p, TRUE)
        \/ AllStart(p) \/ AllSteps(p, TRUE)
        \/ Collect(p)

Spec == Init /\ [][Next]_vars

\* One client, every store call may raise: uploads, delete-one, bulk delete.
BulkNext ==
    \E p \in SeqProcs :
        \/ UploadRequest(p, Contents, ContentTypes) \/ UploadSteps(p, TRUE)
        \/ DeleteRequest(p) \/ DeleteSteps(p, TRUE)
        \/ BulkRequest(p) \/ BulkSteps(p, TRUE)
        \/ Collect(p)

BulkSpec == Init /\ [][BulkNext]_vars

\* One client: uploads of plain texts, and point-level delete in which
\* every store call may raise.
PointsNext ==
    \E p \in SeqProcs :
        \/ UploadRequest(p, Contents \ {<<EmptyObj>>}, {"text/plain"})
        \/ UploadSteps(p, FALSE)
        \/ PointsRequest(p) \/ PointsSteps(p, TRUE)
        \/ Collect(p)

PointsSpec == Init /\ [][PointsNext]_vars

\* Concurrent uploads (plain and force-reindex) of plain texts, every store
\* call may raise.
ConcNext ==
    \E p \in Procs :
        \/ UploadRequest(p, Contents \ {<<EmptyObj>>}, {"text/plain"})
        \/ UploadSteps(p, TRUE)
        \/ Collect(p)

ConcSpec == Init /\ [][ConcNext]_vars

\* Two clients whose point-level deletes run at the same time (two worker
\* processes on the same stores), after failure-free uploads of a plain
\* text of several chunks; no store call raises.
ConcPointsNext ==
    \/ \E p \in SeqProcs :
          \/ \E c \in {t \in Contents : Len(t) > chunk_size} :
                UploadStart(p, c, "text/plain", FALSE)
          \/ UploadLookup(p, "ok")
          \/ UploadInsertRow(p, "ok")
          \/ UploadAddVectors(p, "ok")
    \/ \E p \in Procs :
          \/ PointsRequest(p) \/ PointsSteps(p, FALSE)
          \/ Collect(p)

ConcPointsSpec == Init /\ [][ConcPointsNext]_vars

\* One client, no store call raises: uploads of plain texts, and the three
\* deletes that name their targets (delete-one, bulk delete, point-level
\* delete).
FrameNext ==
    \E p \in SeqProcs :
        \/ \E c \in {t \in Contents : Len(t) > 0 /\ t[1] > 0} :
              UploadStart(p, c, "text/plain", FALSE)
        \/ UploadLookup(p, "ok")
        \/ UploadInsertRow(p, "ok")
        \/ UploadAddVectors(p, "ok")
        \/ DeleteRequest(p) \/ DeleteSteps(p, FALSE)
        \/ BulkRequest(p) \/ BulkSteps(p, FALSE)
        \/ PointsRequest(p) \/ PointsSteps(p, FALSE)
        \/ Collect(p)

FrameSpec == Init /\ [][FrameNext]_vars

----------------------------------------------------------------------------
(* The chunker alone: TokenChunker.chunk_text on every text and every      *)
(* configuration of the bounds.                                            *)

\* Largest chunk_size_tokens of a chunker configuration.
MaxChunkSize == 3

\* The texts given to the chunker: every position holds whitespace or a
\* symbol of its own, so that a chunk's text tells which tokens it covers.
Texts ==
    UNION {{t \in [1..n -> 0..MaxTokens] : \A i \in 1..n : t[i] \in {WS, i}} :
             n \in 0..MaxTokens}

\* TokenChunker() with settings of the bounds, about to chunk one text.
\* chunk_overlap < chunk_size: with a larger overlap the loop of chunk_text
\* does not advance.
ChunkInit ==
    /\ docs = {} /\ points = {} /\ collection = TRUE
    /\ next_doc = 0 /\ next_point = 0
    /\ chunk_size \in 1..MaxChunkSize
    /\ chunk_overlap \in 0..(chunk_size - 1)
    /\ \E text \in Texts :
          req = [p \in Procs |->
                    IF p \in SeqProcs
                    THEN [Idle EXCEPT !.op = "chunk", !.pc = "chunk", !.content = text]
                    ELSE Idle]
    /\ resp = [p \in Procs |-> NoResp]
    /\ hist = [p \in Procs |-> NoHist]

\* chunks = self.chunker.chunk_text(text)
ChunkApply(p) ==
    /\ req[p].op = "chunk" /\ req[p].pc = "chunk"
    /\ req' = [req EXCEPT ![p].pc = "chunked",
                          ![p].result = chunk_text(req[p].content, chunk_size,
                                                   chunk_overlap)]
    /\ UNCHANGED <<stores, next_doc, next_point, config, resp, hist>>

ChunkNext == \E p \in SeqProcs : ChunkApply(p)

ChunkSpec == ChunkInit /\ [][ChunkNext]_vars

----------------------------------------------------------------------------
(* The chunker step by step: one action per iteration of the while loop of *)
(* chunk_text.                                                             *)

\* TokenChunker() with settings of the bounds, called with one text.
LoopInit ==
    /\ docs = {} /\ points = {} /\ collection = TRUE
    /\ next_doc = 0 /\ next_point = 0
    /\ chunk_size \in 1..MaxChunkSize
    /\ chunk_overlap \in 0..(chunk_size - 1)
    /\ \E text \in Texts :
          req = [p \in Procs |->
                    IF p \in SeqProcs
                    THEN [Idle EXCEPT !.op = "chunk_steps", !.pc = "enter",
                                      !.content = text]
                    ELSE Idle]
    /\ resp = [p \in Procs |-> NoResp]
    /\ hist = [p \in Procs |-> NoHist]

\* chunk_text up to the loop: the blank text, the short text, or
\* chunks = []; start_idx = 0; chunk_index = 0 (chunker.py:22-37)
LoopEnter(p) ==
    /\ req[p].op = "chunk_steps" /\ req[p].pc = "enter"
    /\ LET text == req[p].content
           tokens == Encode(text)
       IN req' = [req EXCEPT
                    ![p].pc = IF IsBlank(text) \/ Len(tokens) <= chunk_size
                              THEN "chunked" ELSE "loop",
                    ![p].result =
                        IF IsBlank(text) \/ Len(tokens) > chunk_size THEN <<>>
                        ELSE <<[text |-> text, token_count |-> Len(tokens),
                                chunk_index |-> 0]>>,
                    ![p].start_idx = 0,
                    ![p].chunk_index = 0]
    /\ UNCHANGED <<stores, next_doc, next_point, config, resp, hist>>

\* One test of the while condition and, when it holds, one iteration
\* without its break.
LoopIter_NoBreak(p) ==
    /\ req[p].op = "chunk_steps" /\ req[p].pc = "loop"
    /\ Len(req[p].result) <= MaxTokens
    /\ LET tokens == Encode(req[p].content)
           start_idx == req[p].start_idx
           end_idx == Min(start_idx + chunk_size, Len(tokens))
           chunk_tokens == SubSeq(tokens, start_idx + 1, end_idx)
           c == [text |-> Decode(chunk_tokens),
                 token_count |-> Len(chunk_tokens),
                 chunk_index |-> req[p].chunk_index]
       IN IF start_idx >= Len(tokens)
          THEN req' = [req EXCEPT ![p].pc = "chunked"]
          ELSE req' = [req EXCEPT ![p].result = Append(@, c),
                                  ![p].start_idx = end_idx - chunk_overlap,
                                  ![p].chunk_index = @ + 1]
    /\ UNCHANGED <<stores, next_doc, next_point, config, resp, hist>>

\* One test of the while condition and, when it holds, one iteration
\* (chunker.py:39-56); return chunks when the loop is left (chunker.py:58).
\* The number of chunks is capped at one more than the tokens of the
\* longest text, which the loop does not reach.
LoopIter(p) ==
    /\ req[p].op = "chunk_steps" /\ req[p].pc = "loop"
    /\ Len(req[p].result) <= MaxTokens
    /\ LET tokens == Encode(req[p].content)
           start_idx == req[p].start_idx
           end_idx == Min(start_idx + chunk_size, Len(tokens))
           chunk_tokens == SubSeq(tokens, start_idx + 1, end_idx)
           c == [text |-> Decode(chunk_tokens),
                 token_count |-> Len(chunk_tokens),
                 chunk_index |-> req[p].chunk_index]
       IN IF start_idx >= Len(tokens)
          THEN req' = [req EXCEPT ![p].pc = "chunked"]
          ELSE IF end_idx >= Len(tokens)
          THEN req' = [req EXCEPT ![p].result = Append(@, c),
                                  ![p].pc = "chunked"]
          ELSE req' = [req EXCEPT ![p].result = Append(@, c),
                                  ![p].start_idx = end_idx - chunk_overlap,
                                  ![p].chunk_index = @ + 1]
    /\ UNCHANGED <<stores, next_doc, next_point, config, resp, hist>>

LoopNext == \E p \in SeqProcs : LoopEnter(p) \/ LoopIter(p)

\* The handler runs chunk_text to its end: nothing in the loop blocks.
LoopSpec == LoopInit /\ [][LoopNext]_vars /\ WF_vars(LoopNext)

----------------------------------------------------------------------------
(* The text extractor on its own: extract_text as a function of the bytes *)
(* and the declared content type.                                         *)

MaxBytes == 3

\* The byte strings handed to extract_text: words, whitespace, "{}" and
\* bytes that are not valid UTF-8.
Bytes ==
    UNION {[1..n -> {1, WS, EmptyObj, BadByte}] : n \in 0..MaxBytes}

\* The declared types: the two text types, JSON, and one other type.
DeclaredTypes ==
    {"text/plain", "text/markdown", "application/json", "application/pdf"}

\* A DocumentProcessor about to extract the text of one file.
ExtractInit ==
    /\ docs = {} /\ points = {} /\ collection = TRUE
    /\ next_doc = 0 /\ next_point = 0
    /\ chunk_size = 2 /\ chunk_overlap = 1
    /\ \E content \in Bytes, content_type \in DeclaredTypes :
          req = [p \in Procs |->
                    IF p \in SeqProcs
                    THEN [Idle EXCEPT !.op = "extract", !.pc = "extract",
                                      !.content = content,
                                      !.content_type = content_type]
                    ELSE Idle]
    /\ resp = [p \in Procs |-> NoResp]
    /\ hist = [p \in Procs |-> NoHist]

\* text = self.extract_text(content, content_type, filename): the call
\* returns the text or raises.
ExtractApply(p) ==
    /\ req[p].op = "extract" /\ req[p].pc = "extract"
    /\ IF ExtractRaises(req[p].content, req[p].content_type)
       THEN req' = [req EXCEPT ![p].pc = "raised"]
       ELSE req' = [req EXCEPT ![p].pc = "extracted",
                               ![p].text = extract_text(req[p].content,
                                                        req[p].content_type)]
    /\ UNCHANGED <<stores, next_doc, next_point, config, resp, hist>>

ExtractNext == \E p \in SeqProcs : ExtractApply(p)

ExtractSpec == ExtractInit /\ [][ExtractNext]_vars

----------------------------------------------------------------------------
(* The JSON flattener on its own: _flatten_json as a function of the *)
(* parsed value.                                                      *)

MaxItems == 2

\* A parsed JSON value: a scalar (leaf), a dict or a list.  The items of a
\* container are kept in iteration order; the items of a dict carry their
\* key, which no two of them share.
Keys == {"a", "b"}
JsonLeaves == {[kind |-> "leaf", value |-> "x", items |-> <<>>]}

Dicts(S) ==
    {[kind |-> "dict", value |-> "", items |-> it] :
        it \in {s \in UNION {[1..n -> [key : Keys, val : S]] : n \in 0..MaxItems} :
                   \A i, j \in DOMAIN s : i # j => s[i].key # s[j].key}}

Lists(S) ==
    {[kind |-> "list", value |-> "", items |-> it] :
        it \in UNION {[1..n -> [key : {""}, val : S]] : n \in 0..MaxItems}}

\* The values of one level, and those of two.
JsonFlat == JsonLeaves \cup Dicts(JsonLeaves) \cup Lists(JsonLeaves)
JsonValues == JsonFlat \cup Dicts(JsonFlat) \cup Lists(JsonFlat)

\* A path is the sequence of the keys and positions that new_key was built
\* from: f"{prefix}.{key}" and f"{prefix}[{idx}]"; the empty path is "".
KeySeg(key) == [seg |-> "key", key |-> key, idx |-> 0]
IdxSeg(idx) == [seg |-> "idx", key |-> "", idx |-> idx]

\* A string is the sequence of its lines, never empty: "" is one empty
\* line.  f"{path}: {value}" is a line; no value of the model holds "\n".
Line(path, value) == [blank |-> FALSE, path |-> path, value |-> value]
EmptyLine == [blank |-> TRUE, path |-> <<>>, value |-> ""]

\* "\n".join(lines) and s.split("\n")
Join(lines) == IF lines = <<>> THEN <<EmptyLine>> ELSE lines
Split(s) == s

RECURSIVE flatten_json(_, _), ItemLines(_, _, _)
\* the for loops of _flatten_json from item i on: the lines they add
ItemLines(obj, prefix, i) ==
    IF i > Len(obj.items) THEN <<>>
    ELSE LET item == obj.items[i].val
             new_key == IF obj.kind = "dict"
                        THEN Append(prefix, KeySeg(obj.items[i].key))
                        ELSE Append(prefix, IdxSeg(i - 1))
             added == IF item.kind \in {"dict", "list"}
                      THEN Split(flatten_json(item, new_key))
                      ELSE <<Line(new_key, item.value)>>
         IN added \o ItemLines(obj, prefix, i + 1)

\* DocumentProcessor._flatten_json(obj, prefix)
flatten_json(obj, prefix) ==
    IF obj.kind \in {"dict", "list"} THEN Join(ItemLines(obj, prefix, 1))
    ELSE Join(<<Line(prefix, obj.value)>>)

\* A DocumentProcessor about to flatten one parsed value.
FlattenInit ==
    /\ docs = {} /\ points = {} /\ collection = TRUE
    /\ next_doc = 0 /\ next_point = 0
    /\ chunk_size = 2 /\ chunk_overlap = 1
    /\ \E obj \in JsonValues :
          req = [p \in Procs |->
                    IF p \in SeqProcs
                    THEN [Idle EXCEPT !.op = "flatten", !.pc = "flatten",
                                      !.obj = obj]
                    ELSE Idle]
    /\ resp = [p \in Procs |-> NoResp]
    /\ hist = [p \in Procs |-> NoHist]

\* return self._flatten_json(data)
FlattenApply(p) ==
    /\ req[p].op = "flatten" /\ req[p].pc = "flatten"
    /\ req' = [req EXCEPT ![p].pc = "flattened",
                          ![p].text = flatten_json(req[p].obj, <<>>)]
    /\ UNCHANGED <<stores, next_doc, next_point, config, resp, hist>>

FlattenNext == \E p \in SeqProcs : FlattenApply(p)

FlattenSpec == FlattenInit /\ [][FlattenNext]_vars

----------------------------------------------------------------------------
(* The hasher on its own: a client calls compute_sha256 several times on *)
(* one DocumentProcessor.                                                *)

MaxCalls == 3

\* A DocumentProcessor that has hashed nothing yet.
HashInit ==
    /\ docs = {} /\ points = {} /\ collection = TRUE
    /\ next_doc = 0 /\ next_point = 0
    /\ chunk_size = 2 /\ chunk_overlap = 1
    /\ req = [p \in Procs |->
                 IF p \in SeqProcs
                 THEN [Idle EXCEPT !.op = "hash", !.pc = "hash"]
                 ELSE Idle]
    /\ resp = [p \in Procs |-> NoResp]
    /\ hist = [p \in Procs |-> NoHist]

\* sha256 = self.compute_sha256(content)
HashApply(p, content) ==
    /\ req[p].op = "hash" /\ req[p].pc = "hash"
    /\ Len(req[p].calls) < MaxCalls
    /\ req' = [req EXCEPT ![p].calls =
                  Append(@, [content |-> content,
                             sha256 |-> compute_sha256(content)])]
    /\ UNCHANGED <<stores, next_doc, next_point, config, resp, hist>>

HashNext == \E p \in SeqProcs, content \in Contents : HashApply(p, content)

HashSpec == HashInit /\ [][HashNext]_vars

----------------------------------------------------------------------------
(* Startup: QdrantStore() and its _ensure_collection, on a Vector Store *)
(* that may hold the collection of an earlier run.                      *)

\* The Vector Store before the application first started.
StartInit ==
    /\ docs = {} /\ points = {} /\ collection = FALSE
    /\ next_doc = 0 /\ next_point = 0
    /\ chunk_size = 2 /\ chunk_overlap = 1
    /\ req = [p \in Procs |-> Idle]
    /\ resp = [p \in Procs |-> NoResp]
    /\ hist = [p \in Procs |-> NoHist]

\* vectorstore = QdrantStore() (main.py:58, routes.py:39-40), which runs
\* _ensure_collection (qdrant_client.py:19-48).  f names the call of the
\* try block that raises, g the call of the except block that raises; the
\* inner except passes, so the constructor returns in every case.
EnsureCollection(p, f, g) ==
    /\ req[p].pc = "idle"
    /\ LET try_raised == \/ f = "get_collections"
                         \/ ~collection /\ f = "create_collection"
           deleted == try_raised /\ g # "delete_collection"
       IN /\ collection' = IF deleted THEN g # "create_collection"
                           ELSE IF try_raised THEN collection
                           ELSE TRUE
          /\ points' = IF deleted THEN {} ELSE points
          /\ req' = [req EXCEPT ![p] = Done]
          /\ resp' = [resp EXCEPT ![p] = NoResp]
          /\ hist' = [hist EXCEPT ![p] =
                        [NoHist EXCEPT !.op = "startup",
                                       !.pre_docs = docs,
                                       !.pre_points = points,
                                       !.pre_collection = collection,
                                       !.raised =
                                          (IF try_raised THEN {<<f, 0>>} ELSE {})
                                          \cup (IF try_raised /\ g # "ok"
                                                THEN {<<g, 1>>} ELSE {})]]
    /\ UNCHANGED <<docs, next_doc, next_point, config>>

\* One process that starts, serves failure-free uploads, and starts again;
\* every store call of the startup may raise.
StartNext ==
    \E p \in SeqProcs :
        \/ \E f \in {"ok", "get_collections", "create_collection"},
              g \in {"ok", "delete_collection", "create_collection"} :
                 EnsureCollection(p, f, g)
        \/ UploadRequest(p, Contents \ {<<EmptyObj>>}, {"text/plain"})
        \/ UploadSteps(p, FALSE)
        \/ Collect(p)

StartSpec == StartInit /\ [][StartNext]_vars

----------------------------------------------------------------------------
(* The claims *)

\* No request is between two steps of its handler.
Quiescent == \A p \in Procs : req[p].pc \in {"idle", "done"}

\* The row's aggregates are those of the points that carry its id.
CountsMatch(d) ==
    /\ d.chunk_count = Cardinality(PointsOf(d.id))
    /\ d.total_tokens = TokenSum(PointsOf(d.id))

\* C1: in every state reached by sequentially executed, failure-free
\* operations, every Document row's chunk_count is the number of vector
\* points whose doc_id is its id, and its total_tokens the sum of their
\* token_count.
C1_CountsAlwaysMatch == Quiescent => \A d \in docs : CountsMatch(d)


\* A request of kind op has returned in slot p.
Returned(p, op) == req[p].pc = "done" /\ hist[p].op = op

\* The stores are as the request of slot p found them.
StoresUntouched(p) == docs = hist[p].pre_docs /\ points = hist[p].pre_points

\* C2: in every reachable state, under every interleaving of concurrent
\* upload and force-reindex requests and every per-step failure, no two
\* Document rows have the same sha256.
C2_UniqueFingerprint ==
    \A d1 \in docs, d2 \in docs : d1.sha256 = d2.sha256 => d1.id = d2.id

\* C2 witness: an upload that found no row for its fingerprint lost the race
\* for it: its INSERT was rejected while the winner's row is stored.
C2_Witness ==
    \E p \in Procs :
        /\ Returned(p, "upload")
        /\ hist[p].existing = None /\ hist[p].failed_at = "unique"
        /\ \E d \in docs : d.sha256 = compute_sha256(hist[p].content)

\* The uploaded bytes' fingerprint belonged to a row when the request came.
KnownContent(p) ==
    \E d \in hist[p].pre_docs : d.sha256 = compute_sha256(hist[p].content)
PreRow(p) ==
    CHOOSE d \in hist[p].pre_docs : d.sha256 = compute_sha256(hist[p].content)

\* C3: uploading bytes whose fingerprint already belongs to a Document,
\* with force_reindex false, changes neither store and creates no row; when
\* the lookup does not raise, the call returns the existing Document's id
\* with its stored chunk_count and total_tokens.
C3_Idempotent ==
    \A p \in SeqProcs :
        (Returned(p, "upload") /\ ~hist[p].force /\ KnownContent(p)) =>
            /\ StoresUntouched(p)
            /\ hist[p].doc = None
            /\ hist[p].raised = {} =>
                   /\ resp[p].status = 200
                   /\ resp[p].message = "Document already exists"
                   /\ resp[p].document_id = PreRow(p).id
                   /\ resp[p].chunk_count = PreRow(p).chunk_count
                   /\ resp[p].total_tokens = PreRow(p).total_tokens

\* C3 witness: such an upload returned the existing row, whose stored
\* counts are not those of its points (the pipeline was not run to recount).
C3_Witness ==
    \E p \in SeqProcs :
        /\ Returned(p, "upload") /\ ~hist[p].force /\ KnownContent(p)
        /\ resp[p].status = 200
        /\ ~CountsMatch(PreRow(p))

\* C4: after a successful upload of already-ingested bytes with
\* force_reindex true, whatever the number of points of the old Document,
\* no point carries the old Document's id, exactly one row has the
\* fingerprint, and that row owns newly created points.
C4_ReindexRetiresOld ==
    \A p \in SeqProcs :
        (Returned(p, "upload") /\ hist[p].force /\ hist[p].existing # None
            /\ resp[p].status = 200) =>
            /\ PointsOf(hist[p].existing) = {}
            /\ \A d \in docs : d.sha256 = compute_sha256(hist[p].content)
                                  => d.id = resp[p].document_id
            /\ HasDoc(resp[p].document_id)
            /\ PointsOf(resp[p].document_id) # {}
            /\ PointsOf(resp[p].document_id) \cap hist[p].pre_points = {}

\* C5: after delete-one on an existing Document completes without a
\* warning, whatever the number of points the Document owned, no point with
\* its doc_id remains and its row is gone.
C5_DeleteRemovesAll ==
    \A p \in SeqProcs :
        (Returned(p, "delete_one") /\ resp[p].status = 200 /\ ~resp[p].warning) =>
            /\ PointsOf(hist[p].target) = {}
            /\ ~HasDoc(hist[p].target)

\* The requested point ids were points of one Document, which has a row.
OneDocSubset(p) ==
    /\ hist[p].pids # {}
    /\ \E d \in hist[p].pre_docs :
          hist[p].pids \subseteq {pt.id : pt \in {q \in hist[p].pre_points : q.doc_id = d.id}}
OwnerOf(p) ==
    CHOOSE d \in docs :
        \E pt \in hist[p].pre_points : pt.id \in hist[p].pids /\ pt.doc_id = d.id

\* C6: after a point-level delete of any subset of one Document's points
\* returns success, the Document's chunk_count is the number of points
\* still stored for its doc_id and its total_tokens their token_count sum.
C6_RecountExact ==
    \A p \in SeqProcs :
        (Returned(p, "delete_points") /\ resp[p].status = 200 /\ OneDocSubset(p)) =>
            CountsMatch(OwnerOf(p))


\* The rows of a set of Documents, by what identifies them.
Identities(D) == {<<d.id, d.sha256>> : d \in D}

\* C7: after delete-all returns success the Vector Store holds no point,
\* every Document row has chunk_count = 0 and total_tokens = 0, and the
\* rows (ids and fingerprints) are those from before the call.
C7_DeleteAllResets ==
    \A p \in SeqProcs :
        (Returned(p, "delete_all") /\ resp[p].status = 200) =>
            /\ points = {}
            /\ \A d \in docs : d.chunk_count = 0 /\ d.total_tokens = 0
            /\ Identities(docs) = Identities(hist[p].pre_docs)

\* An upload failed and had created no row.
FailedBeforeRow(p) ==
    /\ Returned(p, "upload")
    /\ resp[p].status = 500
    /\ hist[p].doc = None

\* C8 as stated: an upload, fresh or force-reindex, that fails at any step
\* before the new Document row is created leaves both stores exactly as
\* they were.
C8_FailureLeavesStores ==
    \A p \in SeqProcs : FailedBeforeRow(p) => StoresUntouched(p)

\* C8 amended: such an upload adds and modifies no row and no point; it
\* leaves both stores exactly as they were when it is a fresh upload or when
\* it failed before the deletion of the old Document began; a force-reindex
\* that failed later has removed nothing but points and the row of the old
\* Document.
C8_FailureAddsNothing ==
    \A p \in SeqProcs :
        FailedBeforeRow(p) =>
            /\ docs \subseteq hist[p].pre_docs
            /\ points \subseteq hist[p].pre_points
            /\ (~KnownContent(p) \/ hist[p].failed_at \in {"lookup", "process"})
                  => StoresUntouched(p)
            /\ KnownContent(p) =>
                  /\ hist[p].pre_docs \ docs \subseteq {PreRow(p)}
                  /\ \A pt \in hist[p].pre_points \ points : pt.doc_id = PreRow(p).id

\* C8 witness: a force-reindex failed at the INSERT of the new row, after
\* the old Document's row was deleted.
C8_Witness ==
    \E p \in SeqProcs :
        /\ FailedBeforeRow(p) /\ hist[p].failed_at = "insert_row"
        /\ KnownContent(p)
        /\ PreRow(p) \notin docs

\* C9: when the batch insert of the points fails after the new Document row
\* was committed, the upload reports failure and the row stays in the
\* Metadata Store with its fingerprint and with a chunk_count that is not
\* the number of points stored for its id.
C9_RowSurvivesVectorFailure ==
    \A p \in SeqProcs :
        (Returned(p, "upload") /\ hist[p].failed_at = "add_vectors") =>
            /\ resp[p].status = 500
            /\ HasDoc(hist[p].doc)
            /\ Row(hist[p].doc).sha256 = compute_sha256(hist[p].content)
            /\ Row(hist[p].doc).chunk_count # Cardinality(PointsOf(hist[p].doc))

\* C9 witness: the batch insert of a document of several chunks failed.
C9_Witness ==
    \E p \in SeqProcs :
        /\ Returned(p, "upload") /\ hist[p].failed_at = "add_vectors"
        /\ HasDoc(hist[p].doc) /\ Row(hist[p].doc).chunk_count > 1

\* The i-th id of a bulk delete was a row whose lookup and deletion did not
\* raise.
BulkRowDeleted(p, i) ==
    /\ \E d \in hist[p].pre_docs : d.id = hist[p].ids[i]
    /\ \A j \in 1..(i - 1) : hist[p].ids[j] # hist[p].ids[i]
    /\ <<"b_lookup", i>> \notin hist[p].raised
    /\ <<"b_row", i>> \notin hist[p].raised

\* C10: delete-one and every iteration of bulk delete delete the Document
\* row whether or not the deletion of its points succeeded (provided the
\* Metadata Store calls do not fail); the document is reported deleted, with
\* a warning (delete-one) or qdrant_cleaned = false (bulk delete) exactly
\* when the vector deletion failed.
C10_RowDeletedRegardless ==
    \A p \in SeqProcs :
        /\ (Returned(p, "delete_one")
              /\ \E d \in hist[p].pre_docs : d.id = hist[p].target
              /\ hist[p].failed_at = "") =>
               /\ ~HasDoc(hist[p].target)
               /\ resp[p].status = 200
               /\ resp[p].warning <=> <<"d_vectors", 0>> \in hist[p].raised
        /\ Returned(p, "bulk_delete") =>
               \A i \in DOMAIN hist[p].ids :
                   BulkRowDeleted(p, i) =>
                       /\ ~HasDoc(hist[p].ids[i])
                       /\ resp[p].status = 200
                       /\ \E k \in DOMAIN resp[p].deleted :
                             /\ resp[p].deleted[k].doc_id = hist[p].ids[i]
                             /\ resp[p].deleted[k].qdrant_cleaned
                                   <=> <<"b_vectors", i>> \notin hist[p].raised

\* C10 witness: a bulk delete of two documents, the vector deletion failed
\* for the first only, and both rows are gone.
C10_Witness ==
    \E p \in SeqProcs :
        /\ Returned(p, "bulk_delete") /\ Len(hist[p].ids) = 2
        /\ BulkRowDeleted(p, 1) /\ BulkRowDeleted(p, 2)
        /\ <<"b_vectors", 1>> \in hist[p].raised
        /\ <<"b_vectors", 2>> \notin hist[p].raised
        /\ Len(resp[p].deleted) = 2
        /\ docs = {}

\* The id named by the delete-one request of slot p had no row.
UnknownTarget(p) == \A d \in hist[p].pre_docs : d.id # hist[p].target

\* C11: delete-one on an id that has no Document row reports not-found and
\* changes nothing in either store; the Vector Store is not called for the
\* id (no call of it can have raised).
C11_DeleteUnknownIsNotFound ==
    \A p \in SeqProcs :
        (Returned(p, "delete_one") /\ UnknownTarget(p)
            /\ <<"d_lookup", 0>> \notin hist[p].raised) =>
            /\ resp[p].status = 404
            /\ resp[p].message = "Document not found"
            /\ StoresUntouched(p)
            /\ hist[p].raised = {}

\* C11 witness: not-found was reported while the stores held a Document and
\* its points.
C11_Witness ==
    \E p \in SeqProcs :
        /\ Returned(p, "delete_one") /\ UnknownTarget(p)
        /\ resp[p].status = 404
        /\ docs # {} /\ points # {}

\* The outcomes reported for id x in a sequence of response entries.
EntriesFor(entries, x) == {k \in DOMAIN entries : entries[k].doc_id = x}
Occurrences(ids, x) == {i \in DOMAIN ids : ids[i] = x}

\* The i-th requested id had no row when its turn came: it never had one,
\* or an earlier occurrence of the same id deleted it.
BulkNotFound(p, i) ==
    \/ \A d \in hist[p].pre_docs : d.id # hist[p].ids[i]
    \/ \E j \in 1..(i - 1) :
          /\ hist[p].ids[j] = hist[p].ids[i]
          /\ <<"b_lookup", j>> \notin hist[p].raised
          /\ <<"b_row", j>> \notin hist[p].raised

\* C12: bulk delete of a non-empty list processes every id: each requested
\* occurrence of an id ends in exactly one of the lists deleted and failed,
\* deleted_count + failed_count is the number of requested ids, and an id
\* whose row exists and whose Metadata Store calls do not fail is deleted
\* whatever happened to the ids before it.
C12_BulkProcessesEveryId ==
    \A p \in SeqProcs :
        (Returned(p, "bulk_delete") /\ hist[p].ids # <<>>) =>
            /\ resp[p].status = 200
            /\ resp[p].deleted_count = Len(resp[p].deleted)
            /\ resp[p].failed_count = Len(resp[p].failed)
            /\ resp[p].deleted_count + resp[p].failed_count = Len(hist[p].ids)
            /\ \A i \in DOMAIN hist[p].ids :
                  LET x == hist[p].ids[i]
                  IN /\ Cardinality(EntriesFor(resp[p].deleted, x))
                          + Cardinality(EntriesFor(resp[p].failed, x))
                          = Cardinality(Occurrences(hist[p].ids, x))
                     /\ (~BulkNotFound(p, i)
                           /\ <<"b_lookup", i>> \notin hist[p].raised
                           /\ <<"b_row", i>> \notin hist[p].raised)
                          => (EntriesFor(resp[p].deleted, x) # {} /\ ~HasDoc(x))

\* C12 witness: of two requested ids with rows, the deletion of the first
\* row failed and the second document was deleted.
C12_Witness ==
    \E p \in SeqProcs :
        /\ Returned(p, "bulk_delete") /\ Len(hist[p].ids) = 2
        /\ hist[p].ids[1] # hist[p].ids[2]
        /\ <<"b_row", 1>> \in hist[p].raised
        /\ HasDoc(hist[p].ids[1])
        /\ ~BulkNotFound(p, 2) /\ ~HasDoc(hist[p].ids[2])
        /\ resp[p].deleted_count = 1 /\ resp[p].failed_count = 1

\* C13: in point-level delete, when the deletion of the requested point ids
\* from the Vector Store fails, the operation fails and no Document row is
\* changed: chunk_count, total_tokens and updated_at are those from before.
C13_FailedDeleteKeepsRows ==
    \A p \in SeqProcs :
        (Returned(p, "delete_points") /\ <<"p_delete", 0>> \in hist[p].raised) =>
            /\ resp[p].status = 500
            /\ resp[p].updated = <<>>
            /\ docs = hist[p].pre_docs

\* C13 witness: the deletion failed for points of a Document that has a
\* row, after their payloads were retrieved.
C13_Witness ==
    \E p \in SeqProcs :
        /\ Returned(p, "delete_points") /\ hist[p].failed_at = "p_delete"
        /\ <<"p_retrieve", 0>> \notin hist[p].raised
        /\ \E pt \in points : pt.id \in hist[p].pids /\ HasDoc(pt.doc_id)

\* The Documents (with a row) that owned a stored point among the ids
\* requested by slot p.
RequestedOwners(p) ==
    {d.id : d \in {r \in hist[p].pre_docs :
                      \E pt \in hist[p].pre_points :
                          pt.id \in hist[p].pids /\ pt.doc_id = r.id}}

\* The Documents the response reports as recounted.
Recounted(p) == {resp[p].updated[k].doc_id : k \in DOMAIN resp[p].updated}

\* No recount or commit of the request of slot p raised.
RecountsSucceeded(p) ==
    \A e \in hist[p].raised : e[1] \notin {"p_recount", "p_commit"}

\* C14: in point-level delete, when the retrieval of the requested points'
\* payloads fails for some ids, the operation proceeds with the points that
\* are retrievable: every Document owning a stored requested point is
\* recounted after the deletion, and only ids that name no point are left
\* out of the recount.
C14_RetrievableAreRecounted ==
    \A p \in SeqProcs :
        (Returned(p, "delete_points") /\ resp[p].status = 200
            /\ RecountsSucceeded(p)) =>
            Recounted(p) = RequestedOwners(p)

\* The recount or the commit of Document id raised in the request of slot p.
RecountFailed(p, id) ==
    <<"p_recount", id>> \in hist[p].raised \/ <<"p_commit", id>> \in hist[p].raised

\* The row of Document id as the request of slot p found it.
RowBefore(p, id) == CHOOSE d \in hist[p].pre_docs : d.id = id

\* The entry of the response for Document id.
UpdatedEntry(p, id) ==
    resp[p].updated[CHOOSE k \in DOMAIN resp[p].updated : resp[p].updated[k].doc_id = id]

\* C15: in point-level delete, once the points are deleted, a Document
\* whose recount or commit fails is skipped and its row keeps its previous
\* values; every other affected Document is still recounted and its counts
\* committed; the operation returns success.
C15_FailedRecountIsSkipped ==
    \A p \in SeqProcs :
        (Returned(p, "delete_points") /\ hist[p].pids # {}
            /\ <<"p_delete", 0>> \notin hist[p].raised) =>
            /\ resp[p].status = 200
            /\ \A d \in hist[p].pre_docs :
                  /\ RecountFailed(p, d.id) => (d \in docs /\ d.id \notin Recounted(p))
                  /\ (d.id \in RequestedOwners(p) /\ ~RecountFailed(p, d.id)
                        /\ <<"p_retrieve", 0>> \notin hist[p].raised) =>
                        /\ d.id \in Recounted(p)
                        /\ HasDoc(d.id)
                        /\ Row(d.id).chunk_count = UpdatedEntry(p, d.id).new_chunk_count
                        /\ Row(d.id).total_tokens = UpdatedEntry(p, d.id).new_total_tokens
                        /\ Row(d.id).updated_at = d.updated_at + 1

\* C15 witness: points of two Documents were deleted, the commit of one
\* recount failed and the other Document's counts were committed.
C15_Witness ==
    \E p \in SeqProcs :
        /\ Returned(p, "delete_points") /\ resp[p].status = 200
        /\ \E a \in RequestedOwners(p), b \in RequestedOwners(p) :
              /\ a # b
              /\ <<"p_commit", a>> \in hist[p].raised
              /\ b \in Recounted(p)
              /\ Row(b).chunk_count # RowBefore(p, b).chunk_count

\* C16: when two concurrent uploads of the same new content race between
\* the existence check and the insert, the upload that loses on the
\* uniqueness constraint answers like "document already exists": it returns
\* the winner's Document summary, not an error, and writes no point.
C16_LoserReturnsWinner ==
    \A p \in Procs :
        (Returned(p, "upload") /\ ~hist[p].force /\ hist[p].existing = None
            /\ hist[p].raised \subseteq {<<"unique", 0>>}
            /\ \E d \in docs : d.sha256 = compute_sha256(hist[p].content)) =>
            LET d == CHOOSE r \in docs : r.sha256 = compute_sha256(hist[p].content)
            IN /\ resp[p].status = 200
               /\ resp[p].document_id = d.id
               /\ hist[p].doc \in {None, d.id}

\* The rows written by the request of slot p.
RowsWritten(p) == docs \ hist[p].pre_docs

\* C17: the response of a mutating operation reports a store mutation as
\* done only if it took effect (stated for upload, delete-one and
\* delete-all): an ingested upload has its row and its points stored; a
\* delete-one without warning left no row and no point of the document;
\* delete-all reports document metadata as updated, with documents_updated,
\* only for rows whose counts it committed as zero.
C17_ResponseTellsWhatHappened ==
    \A p \in SeqProcs :
        /\ (Returned(p, "upload")
              /\ resp[p].message = "Document ingested successfully") =>
               /\ HasDoc(resp[p].document_id)
               /\ Row(resp[p].document_id).chunk_count = resp[p].chunk_count
               /\ Cardinality(PointsOf(resp[p].document_id)) = resp[p].chunk_count
        /\ (Returned(p, "delete_one") /\ resp[p].status = 200) =>
               /\ ~HasDoc(hist[p].target)
               /\ ~resp[p].warning => PointsOf(hist[p].target) = {}
        /\ (Returned(p, "delete_all") /\ resp[p].status = 200) =>
               /\ resp[p].documents_updated = Cardinality(RowsWritten(p))
               /\ \A d \in RowsWritten(p) : d.chunk_count = 0 /\ d.total_tokens = 0

\* The upload of slot p ran the pipeline on a blank text (empty, or of
\* whitespace only).
BlankUpload(p) ==
    /\ Returned(p, "upload")
    /\ <<"lookup", 0>> \notin hist[p].raised
    /\ ~ShortCircuit(IF KnownContent(p) THEN PreRow(p).id ELSE None, hist[p].force)
    /\ IsBlank(extract_text(hist[p].content, hist[p].content_type))

\* C18: an upload whose extracted text has zero chunks is rejected and
\* writes to no store: no Document row is created and, on a force-reindex,
\* no row and no point of the existing Document is deleted.
C18_BlankUploadRejected ==
    \A p \in SeqProcs :
        BlankUpload(p) =>
            /\ resp[p].status = 500
            /\ hist[p].doc = None
            /\ StoresUntouched(p)

\* C18 witness: bytes ingested as plain text are re-uploaded with
\* force_reindex as JSON, where they flatten to the empty text; the
\* existing Document still has its row and its points.
C18_Witness ==
    \E p \in SeqProcs :
        /\ BlankUpload(p) /\ hist[p].force /\ KnownContent(p)
        /\ PreRow(p) \in docs
        /\ PointsOf(PreRow(p).id) # {}

\* The chunker has returned in slot p.
Chunked(p) == req[p].op = "chunk" /\ req[p].pc = "chunked"

\* The number of tokens of a text.
count_tokens(text) == Len(Encode(text))

\* C19: for every non-blank text of at most chunk_size tokens, chunk_text
\* returns exactly one chunk, with chunk_index 0, token_count the text's
\* token count, and text the input.
C19_ShortTextIsOneChunk ==
    \A p \in SeqProcs :
        (Chunked(p) /\ ~IsBlank(req[p].content)
            /\ count_tokens(req[p].content) <= chunk_size) =>
            /\ Len(req[p].result) = 1
            /\ req[p].result[1].chunk_index = 0
            /\ req[p].result[1].token_count = count_tokens(req[p].content)
            /\ req[p].result[1].text = req[p].content

\* C19 witness: a text of exactly chunk_size tokens that begins with
\* whitespace was chunked.
C19_Witness ==
    \E p \in SeqProcs :
        /\ Chunked(p) /\ ~IsBlank(req[p].content)
        /\ count_tokens(req[p].content) = chunk_size /\ chunk_size > 1
        /\ req[p].content[1] = WS
        /\ Len(req[p].result) = 1

RECURSIVE WindowStart(_, _, _)
\* Where the k-th chunk starts if every chunk after the first starts overlap
\* tokens before the end of the chunk before it.
WindowStart(chunks, overlap, k) ==
    IF k = 1 THEN 0
    ELSE WindowStart(chunks, overlap, k - 1) + chunks[k - 1].token_count - overlap

\* C20: for every text of more than chunk_size tokens, each chunk after the
\* first starts exactly chunk_overlap tokens before the end of the chunk
\* before it (its text is the tokens from there on), and the chunk_index
\* values are 0..n-1 in order.
C20_WindowsOverlap ==
    \A p \in SeqProcs :
        (Chunked(p) /\ count_tokens(req[p].content) > chunk_size) =>
            LET chunks == req[p].result
            IN \A k \in DOMAIN chunks :
                  LET start == WindowStart(chunks, chunk_overlap, k)
                  IN /\ chunks[k].chunk_index = k - 1
                     /\ start >= 0
                     /\ start + chunks[k].token_count <= Len(req[p].content)
                     /\ chunks[k].text =
                           SubSeq(req[p].content, start + 1,
                                  start + chunks[k].token_count)

\* C20 witness: a text without whitespace was cut into at least three
\* chunks that overlap.
C20_Witness ==
    \E p \in SeqProcs :
        /\ Chunked(p) /\ chunk_overlap > 0
        /\ \A i \in DOMAIN req[p].content : req[p].content[i] # WS
        /\ Len(req[p].result) >= 3

\* C21: chunk_text returns no chunk for the empty text and for every text of
\* whitespace only, and at least one chunk for every text with a
\* non-whitespace character.
C21_BlankIffNoChunks ==
    \A p \in SeqProcs :
        Chunked(p) =>
            ((\A i \in DOMAIN req[p].content : req[p].content[i] = WS)
                <=> req[p].result = <<>>)

\* C21 witness: a whitespace-only text of more tokens than chunk_size was
\* given to the chunker.
C21_Witness ==
    \E p \in SeqProcs :
        /\ Chunked(p) /\ Len(req[p].content) > chunk_size
        /\ \A i \in DOMAIN req[p].content : req[p].content[i] = WS
        /\ req[p].result = <<>>

\* C22: every chunk has 1 <= token_count <= chunk_size, and when the text
\* has more than chunk_size tokens every chunk but the last has exactly
\* chunk_size tokens.
C22_ChunkSizes ==
    \A p \in SeqProcs :
        Chunked(p) =>
            LET chunks == req[p].result
            IN /\ \A k \in DOMAIN chunks :
                     /\ 1 <= chunks[k].token_count
                     /\ chunks[k].token_count <= chunk_size
                     /\ chunks[k].token_count = Len(chunks[k].text)
               /\ count_tokens(req[p].content) > chunk_size =>
                     \A k \in 1..(Len(chunks) - 1) : chunks[k].token_count = chunk_size

\* C22 witness: a text was cut into full chunks and a shorter last one.
C22_Witness ==
    \E p \in SeqProcs :
        /\ Chunked(p) /\ Len(req[p].result) >= 2 /\ chunk_overlap > 0
        /\ req[p].result[Len(req[p].result)].token_count < chunk_size

\* The loop of slot p runs on only while no window has reached the end of
\* the tokens, and once it is left the last chunk is the window that did.
LoopStopsAtEnd(p) ==
    LET n == Len(Encode(req[p].content))
        chunks == req[p].result
    IN /\ req[p].pc = "loop" =>
             /\ req[p].start_idx < n
             /\ chunks # <<>> => req[p].start_idx + chunk_overlap < n
       /\ (req[p].pc = "chunked" /\ ~IsBlank(req[p].content) /\ n > chunk_size) =>
             /\ chunks # <<>>
             /\ chunks[Len(chunks)].token_count >= 1
             /\ chunks[Len(chunks)].text =
                   SubSeq(req[p].content, n - chunks[Len(chunks)].token_count + 1, n)
             /\ chunks = chunk_text(req[p].content, chunk_size, chunk_overlap)

\* C23: for every token sequence and every configuration with
\* chunk_overlap < chunk_size the chunking loop terminates; it goes on
\* exactly while no window's end has reached the length of the token
\* sequence, and the final, possibly short, chunk is emitted.
C23_LoopTerminates ==
    \A p \in SeqProcs :
        /\ (req[p].op = "chunk_steps") ~> (req[p].pc = "chunked")
        /\ [](req[p].op = "chunk_steps" => LoopStopsAtEnd(p))

\* C23 witness: the loop ended after two or more overlapping windows, the
\* last one short.
C23_Witness ==
    \E p \in SeqProcs :
        /\ req[p].op = "chunk_steps" /\ req[p].pc = "chunked"
        /\ Len(req[p].result) >= 2 /\ chunk_overlap > 0
        /\ req[p].result[Len(req[p].result)].token_count < chunk_size

\* The upload of slot p answered "Document ingested successfully".
Ingested(p) ==
    /\ Returned(p, "upload") /\ resp[p].status = 200
    /\ resp[p].message = "Document ingested successfully"

\* C24: the total_tokens the pipeline returns, the new row stores and the
\* response reports is the sum of token_count over the chunks produced,
\* which for n > 1 chunks is the token count of the text plus
\* (n - 1) * chunk_overlap.
C24_TotalIsChunkSum ==
    \A p \in SeqProcs :
        /\ (req[p].op = "upload"
              /\ req[p].pc \in {"del_vectors", "del_row", "insert_row", "add_vectors"}) =>
              LET chunks == req[p].result
                  text == extract_text(req[p].content, req[p].content_type)
              IN /\ req[p].total =
                       SeqSum([k \in 1..Len(chunks) |-> chunks[k].token_count])
                 /\ Len(chunks) > 1 =>
                       req[p].total =
                          count_tokens(text) + (Len(chunks) - 1) * chunk_overlap
        /\ (req[p].op = "upload" /\ req[p].pc = "add_vectors") =>
              Row(req[p].doc).total_tokens = req[p].total
        /\ Ingested(p) =>
              /\ Row(hist[p].doc).total_tokens = resp[p].total_tokens
              /\ resp[p].total_tokens = TokenSum(PointsOf(hist[p].doc))
              /\ resp[p].chunk_count > 1 =>
                    resp[p].total_tokens =
                       count_tokens(extract_text(hist[p].content, hist[p].content_type))
                          + (resp[p].chunk_count - 1) * chunk_overlap

\* C24 witness: an upload of several chunks was ingested and its total is
\* more than the token count of its text.
C24_Witness ==
    \E p \in SeqProcs :
        /\ Ingested(p) /\ resp[p].chunk_count > 1
        /\ Row(hist[p].doc).total_tokens >
              count_tokens(extract_text(hist[p].content, hist[p].content_type))

\* The chunks of the text the upload of slot p carried.
ChunksOf(p) ==
    chunk_text(extract_text(hist[p].content, hist[p].content_type),
               chunk_size, chunk_overlap)

\* The k-th point an upload wrote for Document doc_id: point ids are drawn
\* in the order of the batch.
KthPoint(doc_id, k) ==
    CHOOSE pt \in PointsOf(doc_id) :
        Cardinality({o \in PointsOf(doc_id) : o.id < pt.id}) = k - 1

\* C25: a successful upload writes exactly one point per chunk, in order:
\* the k-th point carries the embedding of the k-th chunk's text, the
\* chunk_index, token_count and chunk_text of the k-th chunk, and the id
\* of the new Document.
C25_OnePointPerChunk ==
    \A p \in SeqProcs :
        Ingested(p) =>
            LET chunks == ChunksOf(p)
                written == PointsOf(hist[p].doc)
            IN /\ Cardinality(written) = Len(chunks)
               /\ points \ hist[p].pre_points = written
               /\ \A k \in 1..Len(chunks) :
                     LET pt == KthPoint(hist[p].doc, k)
                     IN /\ pt.vector = Embed(chunks[k].text)
                        /\ pt.chunk_index = chunks[k].chunk_index
                        /\ pt.chunk_index = k - 1
                        /\ pt.token_count = chunks[k].token_count
                        /\ pt.chunk_text = chunks[k].text
                        /\ pt.doc_id = hist[p].doc

\* C25 witness: an upload of several chunks with different texts was
\* ingested and its points are stored.
C25_Witness ==
    \E p \in SeqProcs :
        /\ Ingested(p) /\ Len(ChunksOf(p)) > 1
        /\ Cardinality(PointsOf(hist[p].doc)) = Len(ChunksOf(p))
        /\ \A j, k \in 1..Len(ChunksOf(p)) :
              j # k => ChunksOf(p)[j].text # ChunksOf(p)[k].text

\* C26: extract_text never raises: for every byte string, valid UTF-8 or
\* not, valid JSON or not, and every declared content type it returns some
\* text, possibly empty.
C26_ExtractNeverRaises ==
    \A p \in SeqProcs : req[p].op = "extract" => req[p].pc # "raised"

RECURSIVE LeafLines(_, _), LeafLinesFrom(_, _, _)
\* One line per leaf of obj, in iteration order, each under its path.
LeafLinesFrom(obj, path, i) ==
    IF i > Len(obj.items) THEN <<>>
    ELSE LeafLines(obj.items[i].val,
                   Append(path, IF obj.kind = "dict"
                                THEN KeySeg(obj.items[i].key)
                                ELSE IdxSeg(i - 1)))
            \o LeafLinesFrom(obj, path, i + 1)

LeafLines(obj, path) ==
    IF obj.kind = "leaf" THEN <<Line(path, obj.value)>>
    ELSE LeafLinesFrom(obj, path, 1)

\* The lines of a text: the empty text has none.
LinesOf(s) == IF s = <<EmptyLine>> THEN <<>> ELSE s

\* C27: the flattened text of a parsed JSON value has exactly one line per
\* leaf, "<path>: <value>", the path joining keys with '.' and positions as
\* '[index]', in iteration order; nested objects, nested arrays and empty
\* containers contribute no other line.
C27_OneLinePerLeaf ==
    \A p \in SeqProcs :
        (req[p].op = "flatten" /\ req[p].pc = "flattened") =>
            LinesOf(req[p].text) = LeafLines(req[p].obj, <<>>)

\* The digits of a lowercase hexadecimal string.
LowerHex == {HexChars[i] : i \in DOMAIN HexChars}

C29_StartupKeepsCollection ==
    \A p \in SeqProcs :
        (Returned(p, "startup") /\ hist[p].pre_collection) =>
            collection /\ points = hist[p].pre_points

\* C30 as stated: over a successful upload the point count grows by
\* exactly the number of chunks and every point stored before it is kept.
C30_UploadGrowsByChunks ==
    \A p \in SeqProcs :
        Ingested(p) =>
            /\ Cardinality(points) =
                  Cardinality(hist[p].pre_points) + resp[p].chunk_count
            /\ hist[p].pre_points \subseteq points

\* The batch insert of the upload of slot p succeeds in this step.
Inserts(p) ==
    /\ req[p].op = "upload" /\ req[p].pc = "add_vectors"
    /\ req'[p].pc = "done" /\ resp'[p].status = 200

\* C30, amended: the batch insert of a successful upload overwrites no
\* stored point: every point stored before it keeps its id, vector and
\* payload, and it adds exactly one point per chunk, each under an id of
\* its own and tagged with the new Document.
C30_InsertOverwritesNothing ==
    [][\A p \in SeqProcs :
          Inserts(p) =>
             /\ points \subseteq points'
             /\ Cardinality(points') = Cardinality(points) + Len(req[p].result)
             /\ Cardinality({n.id : n \in points' \ points}) = Len(req[p].result)
             /\ \A n \in points' \ points :
                   /\ n.doc_id = req[p].doc
                   /\ \A o \in points : o.id # n.id]_vars

\* C30 witness: an upload of several chunks was ingested while points of
\* another Document were stored, and they still are.
C30_Witness ==
    \E p \in SeqProcs :
        /\ Ingested(p) /\ resp[p].chunk_count > 1
        /\ Cardinality(PointsOf(hist[p].doc)) = resp[p].chunk_count
        /\ \E pt \in hist[p].pre_points : pt \in points /\ pt.doc_id # hist[p].doc

\* One step of the force-reindex of slot p is in order: the old points go
\* after the pipeline and while the old row is the only one, the old row
\* goes after the old points, the new row comes after the old row is gone,
\* and the new points come after the new row.
ReindexStepInOrder(p) ==
    LET old == req[p].existing
        old_points == {pt \in hist[p].pre_points : pt.doc_id = old}
    IN /\ {pt \in points' : pt.doc_id = old} # PointsOf(old) =>
             req[p].result # <<>> /\ HasDoc(old) /\ req[p].doc = None
       /\ (HasDoc(old) /\ ~\E d \in docs' : d.id = old) =>
             /\ req[p].result # <<>> /\ req[p].doc = None
             /\ old_points = {} \/ PointsOf(old) # old_points
       /\ docs' \ docs # {} =>
             /\ ~HasDoc(old) /\ points' = points
             /\ \A d \in docs' \ docs : PointsOf(d.id) = {}
       /\ points' \ points # {} =>
             /\ req[p].doc # None /\ HasDoc(req[p].doc) /\ ~HasDoc(old)
             /\ \A pt \in points' \ points : pt.doc_id = req[p].doc

\* C31: in a force-reindex upload the pipeline completes, then the old
\* Document's points are deleted, then the old row, then the new row is
\* created, then the new points are inserted; the old and the new row
\* never coexist.
C31_ReindexOrder ==
    /\ [][\A p \in SeqProcs :
             (req[p].op = "upload" /\ req[p].existing # None) =>
                ReindexStepInOrder(p)]_vars
    /\ [](\A p \in SeqProcs :
             (req[p].op = "upload" /\ req[p].existing # None) =>
                ~(HasDoc(req[p].existing) /\ req[p].doc # None
                     /\ HasDoc(req[p].doc)))

\* C31 witness: a force-reindex of a Document with points went through all
\* its steps: the old row is gone, the new row and its points are stored.
C31_Witness ==
    \E p \in SeqProcs :
        /\ Ingested(p) /\ hist[p].existing # None
        /\ \E pt \in hist[p].pre_points : pt.doc_id = hist[p].existing
        /\ ~HasDoc(hist[p].existing) /\ HasDoc(hist[p].doc)
        /\ PointsOf(hist[p].doc) # {}

\* The point-level delete of slot p returned 200, asked for a stored point
\* of Document d, and left d no more points than one recount reads.
DeletedPointsOf(p, d) ==
    /\ Returned(p, "delete_points") /\ resp[p].status = 200
    /\ hist[p].raised = {}
    /\ \E pt \in hist[p].pre_points : pt.doc_id = d /\ pt.id \in hist[p].pids
    /\ Cardinality({pt \in hist[p].pre_points :
                       pt.doc_id = d /\ pt.id \notin hist[p].pids}) <= RecountLimit

\* C32: after two concurrent point-level deletes on points of the same
\* Document have both completed without failure, in any interleaving, the
\* Document's chunk_count is the number of points left under its doc_id
\* and its total_tokens is their token_count sum.
C32_ConcurrentRecountsAgree ==
    \A d \in docs :
        (\A p \in Procs : DeletedPointsOf(p, d.id)) => CountsMatch(d)

\* The calls of delete-one that raised in the run recorded in h, and those
\* of the i-th iteration of a bulk delete.
FailedOfOne(h) ==
    {s \in {"lookup", "vectors", "row"} : <<"d_" \o s, 0>> \in h.raised}
FailedOfBulk(h, i) ==
    {s \in {"lookup", "vectors", "row"} : <<"b_" \o s, i>> \in h.raised}

RECURSIVE DeleteOnes(_, _, _, _, _)
\* delete-one run once per id of ids from position i on, in list order,
\* each run with the failures the bulk delete met at that id: the stores
\* at the end and the ids whose row was removed.
DeleteOnes(ds, pts, ids, i, h) ==
    IF i > Len(ids) THEN [docs |-> ds, points |-> pts, removed |-> <<>>]
    ELSE LET one == delete_document(ds, pts, ids[i], FailedOfBulk(h, i))
             rest == DeleteOnes(one.docs, one.points, ids, i + 1, h)
         IN [rest EXCEPT !.removed =
                (IF one.removed THEN <<ids[i]>> ELSE <<>>) \o @]

\* C33: for every list of ids and every pattern of store failures, the
\* stores after bulk delete are those after delete-one run once per id in
\* list order, and bulk delete reports an id deleted exactly when
\* delete-one removed its row.
C33_BulkIsDeleteOnes ==
    \A p \in SeqProcs :
        /\ Returned(p, "delete_one") =>
              LET one == delete_document(hist[p].pre_docs, hist[p].pre_points,
                                         hist[p].target, FailedOfOne(hist[p]))
              IN /\ docs = one.docs /\ points = one.points
                 /\ one.removed <=> resp[p].status = 200
        /\ Returned(p, "bulk_delete") =>
              LET all == DeleteOnes(hist[p].pre_docs, hist[p].pre_points,
                                    hist[p].ids, 1, hist[p])
              IN /\ docs = all.docs /\ points = all.points
                 /\ [k \in DOMAIN resp[p].deleted |-> resp[p].deleted[k].doc_id]
                       = all.removed

\* C33 witness: a bulk delete of two Documents returned, the vector
\* deletion of one having raised and the row deletion of the other.
C33_Witness ==
    \E p \in SeqProcs :
        /\ Returned(p, "bulk_delete") /\ Len(hist[p].ids) = 2
        /\ \A k \in 1..2 : \E d \in hist[p].pre_docs : d.id = hist[p].ids[k]
        /\ \E i, j \in 1..2 :
              /\ i # j
              /\ <<"b_vectors", i>> \in hist[p].raised
              /\ <<"b_row", j>> \in hist[p].raised
        /\ Len(resp[p].deleted) = 1 /\ points # {}

\* C34: when the Vector Store holds no points while Document rows still
\* record chunks, a re-upload of such a Document that succeeds leaves the
\* Document's chunk points in the Vector Store.
C34_ReuploadPopulates ==
    \A p \in SeqProcs :
        (/\ Returned(p, "upload") /\ resp[p].status = 200
         /\ hist[p].pre_points = {}
         /\ \E d \in hist[p].pre_docs :
               /\ d.sha256 = compute_sha256(hist[p].content)
               /\ d.chunk_count > 0)
        => PointsOf(resp[p].document_id) # {}

\* The force-reindex of slot p succeeded on a Document whose row disagreed
\* with its points when the request arrived.
ReindexedInconsistent(p) ==
    /\ Ingested(p) /\ hist[p].force /\ hist[p].existing # None
    /\ LET old_points == {pt \in hist[p].pre_points : pt.doc_id = hist[p].existing}
       IN \E d \in hist[p].pre_docs :
             /\ d.id = hist[p].existing
             /\ \/ d.chunk_count # Cardinality(old_points)
                \/ d.total_tokens # TokenSum(old_points)

\* C35: a successful force-reindex of the bytes of a Document whose row was
\* inconsistent with the Vector Store leaves exactly one Document with that
\* fingerprint, whose chunk_count and total_tokens match its points, and no
\* point under the previous doc_id.
C35_ReindexRepairs ==
    \A p \in SeqProcs :
        ReindexedInconsistent(p) =>
            LET same == {d \in docs : d.sha256 = compute_sha256(hist[p].content)}
            IN /\ Cardinality(same) = 1
               /\ \A d \in same : CountsMatch(d)
               /\ PointsOf(hist[p].existing) = {}

\* C36: in every state reached by failure-free sequential operations,
\* every point's doc_id is the id of an existing Document row: there are
\* no orphaned points.
C36_NoOrphans ==
    Quiescent => \A pt \in points : HasDoc(pt.doc_id)

\* C37: a force-reindex whose deletion of the old Document's points raises
\* is aborted with an error: the old row is retained unchanged, no new row
\* is created and no new point is inserted.
C37_ReindexAbortsOnVectorFailure ==
    \A p \in SeqProcs :
        (/\ Returned(p, "upload") /\ hist[p].existing # None
         /\ <<"del_vectors", 0>> \in hist[p].raised)
        => /\ resp[p].status = 500
           /\ docs = hist[p].pre_docs
           /\ HasDoc(hist[p].existing)
           /\ points \subseteq hist[p].pre_points

\* C37 witness: a force-reindex of a Document that had points returned
\* after the deletion of the old points raised.
C37_Witness ==
    \E p \in SeqProcs :
        /\ Returned(p, "upload") /\ hist[p].force /\ hist[p].existing # None
        /\ hist[p].failed_at = "del_vectors"
        /\ \E pt \in hist[p].pre_points : pt.doc_id = hist[p].existing
        /\ resp[p].status = 500

\* C38: delete-one answers success, with or without warning, only if the
\* row was removed; when the row deletion raises it is rolled back, the
\* row remains and the operation reports failure, also when the
\* Document's points were already deleted.
C38_SuccessOnlyIfRowRemoved ==
    \A p \in SeqProcs :
        Returned(p, "delete_one") =>
            /\ resp[p].status = 200 =>
                  /\ \E d \in hist[p].pre_docs : d.id = hist[p].target
                  /\ ~HasDoc(hist[p].target)
            /\ <<"d_row", 0>> \in hist[p].raised =>
                  /\ resp[p].status = 500
                  /\ docs = hist[p].pre_docs

\* C38 witness: a delete-one whose vector deletion removed points and
\* whose row deletion raised.
C38_Witness ==
    \E p \in SeqProcs :
        /\ Returned(p, "delete_one") /\ hist[p].failed_at = "d_row"
        /\ points # hist[p].pre_points
        /\ HasDoc(hist[p].target) /\ resp[p].status = 500

\* The rows and the points that belong to no Document of the set T.
RowsOutside(ds, T) == {d \in ds : d.id \notin T}
PointsOutside(pts, T) == {pt \in pts : pt.doc_id \notin T}

\* The Documents a returned delete targeted: the id of delete-one, the ids
\* of bulk delete, the owners of the requested points that were stored.
Targeted(p) ==
    IF hist[p].op = "delete_one" THEN {hist[p].target}
    ELSE IF hist[p].op = "bulk_delete" THEN Range(hist[p].ids)
    ELSE {pt.doc_id : pt \in {q \in hist[p].pre_points : q.id \in hist[p].pids}}

\* C39: delete-one, bulk delete and point-level delete leave every row and
\* every point of a Document they do not target as it was; point-level
\* delete removes only requested point ids and deletes no row, so a
\* requested point whose row no longer exists changes no row.
C39_DeletesTouchTargetsOnly ==
    \A p \in SeqProcs :
        (req[p].pc = "done"
         /\ hist[p].op \in {"delete_one", "bulk_delete", "delete_points"}) =>
            /\ RowsOutside(docs, Targeted(p))
                  = RowsOutside(hist[p].pre_docs, Targeted(p))
            /\ PointsOutside(points, Targeted(p))
                  = PointsOutside(hist[p].pre_points, Targeted(p))
            /\ points \subseteq hist[p].pre_points
            /\ hist[p].op = "delete_points" =>
                  /\ \A pt \in hist[p].pre_points \ points : pt.id \in hist[p].pids
                  /\ {d.id : d \in docs} = {d.id : d \in hist[p].pre_docs}

\* C39 witness: a delete that removed points of one Document returned
\* while another Document has a row and points.
C39_Witness ==
    \E p \in SeqProcs :
        /\ req[p].pc = "done" /\ hist[p].op = "delete_points"
        /\ points # hist[p].pre_points
        /\ \E d \in docs : d \notin hist[p].pre_docs
        /\ \E d \in docs : d.id \notin Targeted(p) /\ PointsOf(d.id) # {}

\* The chunks are windows of the tokens that leave no gap: there are start
\* offsets, the first 0, each at most the end of the window before, the
\* last window ending at the end of the tokens, such that every chunk is
\* the decoded tokens of its window.
WindowsCover(tokens, chunks) ==
    /\ chunks # <<>>
    /\ \E start \in [DOMAIN chunks -> 0..Len(tokens)] :
          /\ start[1] = 0
          /\ start[Len(chunks)] + chunks[Len(chunks)].token_count = Len(tokens)
          /\ \A k \in DOMAIN chunks :
                /\ start[k] + chunks[k].token_count <= Len(tokens)
                /\ chunks[k].text =
                      Decode(SubSeq(tokens, start[k] + 1,
                                    start[k] + chunks[k].token_count))
                /\ k > 1 => start[k] <= start[k - 1] + chunks[k - 1].token_count

\* C40 as stated: for every text of more than chunk_size tokens (with
\* 0 <= chunk_overlap < chunk_size) the windows cover the whole token
\* sequence without a gap.
C40_WindowsCoverAll ==
    \A p \in SeqProcs :
        (Chunked(p) /\ count_tokens(req[p].content) > chunk_size) =>
            WindowsCover(Encode(req[p].content), req[p].result)

\* C40 amended: for every text of more than chunk_size tokens that is not
\* whitespace only (with 0 <= chunk_overlap < chunk_size) the windows cover
\* the whole token sequence without a gap: the first starts at token 0,
\* the last ends at the sequence length, every position is in a chunk.
C40_NonBlankWindowsCoverAll ==
    \A p \in SeqProcs :
        (/\ Chunked(p) /\ count_tokens(req[p].content) > chunk_size
         /\ ~IsBlank(req[p].content)) =>
            WindowsCover(Encode(req[p].content), req[p].result)

\* C40 witness: a text of distinct tokens was cut into at least three
\* overlapping windows that cover it.
C40_Witness ==
    \E p \in SeqProcs :
        /\ Chunked(p) /\ Len(req[p].result) >= 3 /\ chunk_overlap > 0
        /\ \A i \in DOMAIN req[p].content : req[p].content[i] = i
        /\ WindowsCover(Encode(req[p].content), req[p].result)
====
